---- MODULE Spec2Model ----
(***************************************************************************)
(* A model of the data-access core of buildwithclaude: the resilient query *)
(* wrapper (safeDbQuery and its process-wide circuit breaker), the three   *)
(* listing services with their route handlers, the local/remote plugin     *)
(* merger and the registry fetchers.                                       *)
(*                                                                         *)
(* Specifications:                                                         *)
(*   Spec         concurrent safeDbQuery calls over the shared breaker     *)
(*   SpecListing  list requests (route handler + listing service) against  *)
(*                a database that may fail and is written concurrently     *)
(*   SpecMerge    getPluginsPaginated as a function of local items,        *)
(*                database rows and options                                *)
(*   SpecFetch    the page loops of the two registry fetchers              *)
(*   SpecIndex    runs of indexMCPServers over the mcp_servers table       *)
(*   SpecSync     one pass of syncMCPServerStats                           *)
(*   SpecSearch   the listing services as functions of their options       *)
(*   SpecParams   the limit and sort parameters of the list routes         *)
(*   SpecFilter   the local filter and the where clause on the same data   *)
(*   SpecClient   the skills list page and its fetches in flight           *)
(***************************************************************************)
EXTENDS Integers, Sequences, FiniteSets, TLC

VARIABLES
    now,              \* Date.now(), in milliseconds
    ticks,            \* number of clock steps taken (bounds the run)
    circuitOpen,      \* safe-query: let circuitOpen
    circuitOpenedAt,  \* safe-query: let circuitOpenedAt
    lastRejectAt,     \* history: time of the most recent rejected operation, -1 if none
    calls,            \* Spec: the safeDbQuery calls, each at its position
    tables,           \* SpecListing: the database tables
    req,              \* SpecListing: the list request in flight
    writes,           \* SpecListing: number of statements run by the indexer and the syncer
    merge,            \* SpecMerge: inputs and result of one getPluginsPaginated call
    fetch,            \* SpecFetch: the running fetcher; SpecClient: the skills page
    job               \* SpecIndex, SpecSync: the running indexer or stats-sync job

vars == <<now, ticks, circuitOpen, circuitOpenedAt, lastRejectAt, calls,
          tables, req, writes, merge, fetch, job>>

breakerVars == <<circuitOpen, circuitOpenedAt, lastRejectAt>>
clockVars == <<now, ticks>>
listingVars == <<tables, req, writes>>

Idle == [pc |-> "unused"]

-----------------------------------------------------------------------------
(* Bounds of the model *)

NumCalls == 3
MaxTicks == 3
MaxElapses == 1
MaxWrites == 2

-----------------------------------------------------------------------------
(* safe-query: the circuit breaker *)

CIRCUIT_TTL_MS == 30000

\* if (Date.now() - circuitOpenedAt > CIRCUIT_TTL_MS)
TtlExpiredInclusive(openedAt, t) == t - openedAt >= CIRCUIT_TTL_MS
TtlExpiredNever(openedAt, t) == FALSE
TtlExpired(openedAt, t) == t - openedAt > CIRCUIT_TTL_MS

\* The circuit is open, whatever its age
ShortCircuitsWhileOpen(open, openedAt, t) == open

\* No early return
ShortCircuitsNever(open, openedAt, t) == FALSE

\* The early return of safeDbQuery: the circuit is open and its TTL has not expired.
ShortCircuits(open, openedAt, t) == open /\ ~TtlExpired(openedAt, t)

\* circuitOpen after the entry check of a call that goes on to its operation.
CircuitAfterEntry(open, openedAt, t) ==
    IF open /\ TtlExpired(openedAt, t) THEN FALSE ELSE open

\* return { data, fromDb: true }
OnResolved(data) == [data |-> data, fromDb |-> TRUE]

\* return { data: fallback, fromDb: false } of the catch block
OnRejectedFlaggedFromDb(fallback) == [data |-> fallback, fromDb |-> TRUE]
OnRejected(fallback) == [data |-> fallback, fromDb |-> FALSE]

\* return { data: fallback, fromDb: false } of the open circuit
OnShortCircuit(fallback) == [data |-> fallback, fromDb |-> FALSE]

-----------------------------------------------------------------------------
(* Text.  A string is a sequence of one-character strings, so that case     *)
(* folding, substring search, prefix tests and splitting are computed.      *)

UpperCase == <<"A", "B", "C", "D", "E", "G", "I", "L", "O", "P", "S", "T", "V">>
LowerCase == <<"a", "b", "c", "d", "e", "g", "i", "l", "o", "p", "s", "t", "v">>

\* String.prototype.toLowerCase, one character
LowerChar(ch) ==
    IF \E i \in 1..Len(UpperCase) : UpperCase[i] = ch
    THEN LowerCase[CHOOSE i \in 1..Len(UpperCase) : UpperCase[i] = ch]
    ELSE ch

\* String.prototype.toLowerCase
ToLower(str) == [i \in 1..Len(str) |-> LowerChar(str[i])]

\* String.prototype.startsWith
StartsWith(str, prefix) ==
    /\ Len(prefix) <= Len(str)
    /\ SubSeq(str, 1, Len(prefix)) = prefix

\* String.prototype.includes
Includes(str, part) ==
    \E i \in 0..(Len(str) - Len(part)) : SubSeq(str, i + 1, i + Len(part)) = part

\* column ILIKE pattern, for the three pattern shapes the queries build from a
\* search term of letters: 'term', 'term%' and '%term%'
ILikeExact(col, term) == ToLower(col) = ToLower(term)
ILikePrefix(col, term) == StartsWith(ToLower(col), ToLower(term))
ILikeContains(col, term) == Includes(ToLower(col), ToLower(term))

\* term = ANY(array column): element equality, case-sensitive
EqualsAny(term, arr) == \E i \in 1..Len(arr) : arr[i] = term

\* String.prototype.trim (blanks only)
RECURSIVE TrimLeft(_)
TrimLeft(str) ==
    IF str # <<>> /\ Head(str) = " " THEN TrimLeft(Tail(str)) ELSE str

RECURSIVE TrimRight(_)
TrimRight(str) ==
    IF str # <<>> /\ str[Len(str)] = " "
    THEN TrimRight(SubSeq(str, 1, Len(str) - 1))
    ELSE str

Trim(str) == TrimRight(TrimLeft(str))

\* String.prototype.split(',')
RECURSIVE SplitComma(_)
SplitComma(str) ==
    IF \E i \in 1..Len(str) : str[i] = ","
    THEN LET k == CHOOSE i \in 1..Len(str) :
                      str[i] = "," /\ \A j \in 1..(i - 1) : str[j] # ","
         IN  <<SubSeq(str, 1, k - 1)>> \o SplitComma(SubSeq(str, k + 1, Len(str)))
    ELSE <<str>>

\* category.split(',').map(c => c.trim()).filter(Boolean)
CategoryList(category) ==
    SelectSeq([i \in 1..Len(SplitComma(category)) |-> Trim(SplitComma(category)[i])],
              LAMBDA c : c # <<>>)

\* a.localeCompare(b) < 0 for strings of letters: the letters decide first,
\* then, between strings equal up to case, lower case sorts before upper case.
LetterRank(ch) ==
    CHOOSE i \in 1..Len(LowerCase) : LowerCase[i] = LowerChar(ch)

IsUpper(ch) == \E i \in 1..Len(UpperCase) : UpperCase[i] = ch

RECURSIVE LettersBefore(_, _)
LettersBefore(a, b) ==
    IF a = <<>> THEN b # <<>>
    ELSE IF b = <<>> THEN FALSE
    ELSE IF LetterRank(Head(a)) # LetterRank(Head(b))
         THEN LetterRank(Head(a)) < LetterRank(Head(b))
         ELSE LettersBefore(Tail(a), Tail(b))

RECURSIVE CaseBefore(_, _)
CaseBefore(a, b) ==
    IF a = <<>> \/ b = <<>> THEN FALSE
    ELSE IF IsUpper(Head(a)) # IsUpper(Head(b))
         THEN IsUpper(Head(b))
         ELSE CaseBefore(Tail(a), Tail(b))

LocaleBefore(a, b) ==
    IF ToLower(a) = ToLower(b) THEN CaseBefore(a, b) ELSE LettersBefore(a, b)

\* Array.prototype.sort with a comparator: a stable sort.  Before(a, b) is
\* "compare(a, b) < 0".
InsertStable(sorted, x, Before(_, _)) ==
    LET stops == {j \in 1..Len(sorted) : ~Before(x, sorted[j])}
        k == IF stops = {} THEN 0 ELSE CHOOSE j \in stops : \A i \in stops : i <= j
    IN  SubSeq(sorted, 1, k) \o <<x>> \o SubSeq(sorted, k + 1, Len(sorted))

StableSort(seq, Before(_, _)) ==
    LET prefix[k \in 0..Len(seq)] ==
            IF k = 0 THEN <<>> ELSE InsertStable(prefix[k - 1], seq[k], Before)
    IN  prefix[Len(seq)]

\* Array.prototype.slice(start, end) for 0 <= start <= end
Slice(seq, start, end) ==
    SubSeq(seq, start + 1, IF end < Len(seq) THEN end ELSE Len(seq))

\* The elements of a sequence
Range(seq) == {seq[i] : i \in 1..Len(seq)}

\* SQL NULL, JavaScript null and undefined
NULL == -1
OrZero(x) == IF x = NULL THEN 0 ELSE x

-----------------------------------------------------------------------------
(* plugin-db-server: the unified plugin listing.  Options use the empty      *)
(* string for an absent (falsy) search, category or marketplaceId.           *)

BUILD_WITH_CLAUDE_MARKETPLACE == "Build with Claude"
BUILD_WITH_CLAUDE_ID == "build-with-claude"
PLUGIN_QUERY_CAP == 1000
UNCATEGORIZED == <<"u", "n", "c", "a", "t">>

\* /^[0-9a-f]{8}-[0-9a-f]{4}-[0-9a-f]{4}-[0-9a-f]{4}-[0-9a-f]{12}$/i.test(id),
\* over the marketplace identifiers of the model
IsUUID(id) == id \in {"0a1b2c3d-0000-4000-8000-000000000001"}

\* The identifier alone, not the display name
IsBWCOnlyById(o) == o.marketplaceId = BUILD_WITH_CLAUDE_ID

\* const isBWCOnly = ...
IsBWCOnly(o) ==
    o.marketplaceId = BUILD_WITH_CLAUDE_ID \/ o.marketplaceId = BUILD_WITH_CLAUDE_MARKETPLACE

\* const isOtherMarketplace = ...
IsOtherMarketplace(o) ==
    o.marketplaceId # "" /\ o.marketplaceId # "all" /\ ~IsBWCOnly(o)

\* The predicate of the search filter of filterLocalPlugins
LocalSearchMatches(p, search) ==
    \/ Includes(ToLower(p.name), ToLower(search))
    \/ Includes(ToLower(p.description), ToLower(search))
    \/ \E i \in 1..Len(p.tags) : Includes(ToLower(p.tags[i]), ToLower(search))

\* function filterLocalPlugins
FilterLocalPlugins(items, o) ==
    LET byType == IF o.type # "" /\ o.type # "all"
                  THEN SelectSeq(items, LAMBDA p : p.type = o.type)
                  ELSE items
        byCategory == IF o.category # <<>> /\ CategoryList(o.category) # <<>>
                      THEN SelectSeq(byType,
                               LAMBDA p : p.category \in Range(CategoryList(o.category)))
                      ELSE byType
        bySearch == IF o.search # <<>>
                    THEN SelectSeq(byCategory, LAMBDA p : LocalSearchMatches(p, o.search))
                    ELSE byCategory
    IN  IF o.marketplaceId # "" /\ o.marketplaceId # "all" /\ ~IsBWCOnly(o)
        THEN <<>>
        ELSE bySearch

\* The comparator of the relevance sort of sortPlugins, as "compare(a, b) < 0"
RelevanceBefore(a, b, search) ==
    LET term == ToLower(search)
        exact(p) == IF ToLower(p.name) = term THEN 0 ELSE 1
        starts(p) == IF StartsWith(ToLower(p.name), term) THEN 0 ELSE 1
        contains(p) == IF Includes(ToLower(p.name), term) THEN 0 ELSE 1
    IN  IF exact(a) # exact(b) THEN exact(a) < exact(b)
        ELSE IF starts(a) # starts(b) THEN starts(a) < starts(b)
        ELSE IF contains(a) # contains(b) THEN contains(a) < contains(b)
        ELSE LocaleBefore(a.name, b.name)

\* function sortPlugins
SortPlugins(items, sort, search) ==
    CASE sort = "name" ->
            StableSort(items, LAMBDA a, b : LocaleBefore(a.name, b.name))
      [] sort = "name-desc" ->
            StableSort(items, LAMBDA a, b : LocaleBefore(b.name, a.name))
      [] sort = "stars" ->
            StableSort(items, LAMBDA a, b : OrZero(b.stars) - OrZero(a.stars) < 0)
      [] sort \in {"newest", "oldest", "updated"} -> items
      [] OTHER ->
            IF search # <<>>
            THEN StableSort(items, LAMBDA a, b : RelevanceBefore(a, b, search))
            ELSE StableSort(items, LAMBDA a, b : LocaleBefore(a.name, b.name))

\* localPlugins of getPluginsPaginated: filtered and sorted, or empty when the
\* request names another marketplace
LocalPlugins(o, allLocal) ==
    IF IsOtherMarketplace(o)
    THEN <<>>
    ELSE SortPlugins(FilterLocalPlugins(allLocal, o), o.sort, o.search)

\* hasMore: offset + page.length < total
HasMoreInclusive(offset, count, total) == offset + count <= total
HasMore(offset, count, total) == offset + count < total

\* step 2 of getPluginsPaginated: the local result, no database query
LocalOnlyResult(o, localPlugins) ==
    LET page == Slice(localPlugins, o.offset, o.offset + o.limit)
    IN  [plugins |-> page, total |-> Len(localPlugins), limit |-> o.limit,
         offset |-> o.offset, hasMore |-> HasMore(o.offset, Len(page), Len(localPlugins))]

\* conditions.push(eq(plugins.active, true))
ActiveOnlyIgnored(row) == TRUE
ActiveOnly(row) == row.active

\* The category condition of the plugin query
PluginCategoryMatches(row, category) ==
    LET cats == CategoryList(category)
    IN  IF Len(cats) = 1 THEN EqualsAny(cats[1], row.categories)
        ELSE IF Len(cats) > 1 THEN \E i \in 1..Len(cats) : EqualsAny(cats[i], row.categories)
        ELSE TRUE

\* The search condition of the plugin query
PluginSearchMatches(row, search) ==
    \/ ILikeContains(row.name, search)
    \/ ILikeContains(row.description, search)
    \/ EqualsAny(search, row.keywords)

\* whereClause of the plugin query
PluginWhere(row, o) ==
    /\ ActiveOnly(row)
    /\ (o.type # "" /\ o.type # "all") => row.type = o.type
    /\ (o.marketplaceId # "" /\ o.marketplaceId # "all")
          => IF IsUUID(o.marketplaceId)
             THEN row.marketplaceId = o.marketplaceId \/ row.marketplaceName = o.marketplaceId
             ELSE row.marketplaceName = o.marketplaceId
    /\ o.category # <<>> => PluginCategoryMatches(row, o.category)
    /\ o.search # <<>> => PluginSearchMatches(row, o.search)

\* The CASE expression of the relevance order of the plugin query
PluginRelevanceTier(row, search) ==
    IF ILikeExact(row.name, search) THEN 0
    ELSE IF ILikePrefix(row.name, search) THEN 1
    ELSE IF ILikeContains(row.name, search) THEN 2
    ELSE IF ILikeContains(row.description, search) THEN 3
    ELSE 4

\* orderBy of the plugin query, as "a sorts before b"
PluginOrderBefore(a, b, o) ==
    CASE o.sort = "name" -> LocaleBefore(a.name, b.name)
      [] o.sort = "name-desc" -> LocaleBefore(b.name, a.name)
      [] o.sort \in {"newest", "updated"} -> a.updatedAt > b.updatedAt
      [] o.sort = "oldest" -> a.updatedAt < b.updatedAt
      [] o.sort = "stars" -> OrZero(a.stars) > OrZero(b.stars)
      [] OTHER ->
            IF o.search # <<>>
            THEN \/ PluginRelevanceTier(a, o.search) < PluginRelevanceTier(b, o.search)
                 \/ /\ PluginRelevanceTier(a, o.search) = PluginRelevanceTier(b, o.search)
                    /\ OrZero(a.stars) > OrZero(b.stars)
            ELSE LocaleBefore(a.name, b.name)

\* The rows of a table as a sequence in ascending id: the order in which rows
\* that the ORDER BY leaves tied are returned.
RECURSIVE RowsById(_)
RowsById(rows) ==
    IF rows = {} THEN <<>>
    ELSE LET first == CHOOSE r \in rows : \A q \in rows : r.id <= q.id
         IN  <<first>> \o RowsById(rows \ {first})

\* The first query of the Promise.all: where, orderBy, limit(1000)
PluginPageQuery(rows, o) ==
    LET matching == {r \in rows : PluginWhere(r, o)}
        ordered == StableSort(RowsById(matching), LAMBDA a, b : PluginOrderBefore(a, b, o))
    IN  Slice(ordered, 0, PLUGIN_QUERY_CAP)

\* The second query of the Promise.all: count(*) under the same where
PluginCountQuery(rows, o) == Cardinality({r \in rows : PluginWhere(r, o)})

\* dbResults.map(...): a database row as a UnifiedPlugin
UnifiedFromRow(row) ==
    [type |-> IF row.type = "" THEN "plugin" ELSE row.type,
     name |-> row.name,
     description |-> row.description,
     category |-> IF row.categories = <<>> \/ row.categories[1] = <<>>
                  THEN UNCATEGORIZED ELSE row.categories[1],
     tags |-> row.keywords,
     marketplaceId |-> row.marketplaceId,
     marketplaceName |-> row.marketplaceName,
     stars |-> row.stars,
     origin |-> "db",
     id |-> row.id,
     active |-> row.active]

\* const key = `${p.type}:${p.name.toLowerCase()}`
MergeKeyCaseSensitive(p) == <<p.type, p.name>>
MergeKey(p) == <<p.type, ToLower(p.name)>>

\* step 4 of getPluginsPaginated: local items first, then database items, each
\* kept unless its key was seen
MergePlugins(localPlugins, dbPlugins) ==
    LET all == localPlugins \o dbPlugins
        kept[k \in 0..Len(all)] ==
            IF k = 0 THEN <<>>
            ELSE IF \E i \in 1..Len(kept[k - 1]) : MergeKey(kept[k - 1][i]) = MergeKey(all[k])
                 THEN kept[k - 1]
                 ELSE Append(kept[k - 1], all[k])
    IN  kept[Len(all)]

\* steps 4 to 6 of getPluginsPaginated
MergedResult(o, localPlugins, dbResults) ==
    LET dbPlugins == [i \in 1..Len(dbResults) |-> UnifiedFromRow(dbResults[i])]
        sortedMerged == SortPlugins(MergePlugins(localPlugins, dbPlugins), o.sort, o.search)
        page == Slice(sortedMerged, o.offset, o.offset + o.limit)
    IN  [plugins |-> page, total |-> Len(sortedMerged), limit |-> o.limit,
         offset |-> o.offset, hasMore |-> HasMore(o.offset, Len(page), Len(sortedMerged))]

-----------------------------------------------------------------------------
(* mcp-server-db and marketplace-server: the queries of the two database   *)
(* listings.  Options use the empty string for an absent (falsy) value.     *)

\* The search condition of getMCPServersPaginated
McpSearchMatches(row, search) ==
    \/ ILikeContains(row.name, search)
    \/ ILikeContains(row.displayName, search)
    \/ ILikeContains(row.description, search)
    \/ EqualsAny(search, row.tags)

\* whereClause of getMCPServersPaginated
McpWhere(row, o) ==
    /\ ActiveOnly(row)
    /\ o.category # "" => row.category = o.category
    /\ (o.sourceRegistry # "" /\ o.sourceRegistry # "all")
          => row.sourceRegistry = o.sourceRegistry
    /\ (o.verification # "" /\ o.verification # "all")
          => row.verificationStatus = o.verification
    /\ o.search # <<>> => McpSearchMatches(row, o.search)

\* The CASE expression of the relevance order of getMCPServersPaginated
McpRelevanceTier(row, search) ==
    IF ILikeExact(row.name, search) THEN 0
    ELSE IF ILikePrefix(row.name, search) THEN 1
    ELSE IF ILikeContains(row.displayName, search) THEN 2
    ELSE IF ILikeContains(row.description, search) THEN 3
    ELSE 4

\* orderBy of getMCPServersPaginated, as "a sorts before b"
McpOrderBefore(a, b, o) ==
    CASE o.sort = "name" -> LocaleBefore(a.displayName, b.displayName)
      [] o.sort = "updated" -> a.updatedAt > b.updatedAt
      [] o.sort = "stars" -> OrZero(a.githubStars) > OrZero(b.githubStars)
      [] o.sort = "relevance" /\ o.search # <<>> ->
            \/ McpRelevanceTier(a, o.search) < McpRelevanceTier(b, o.search)
            \/ /\ McpRelevanceTier(a, o.search) = McpRelevanceTier(b, o.search)
               /\ OrZero(a.dockerPulls) > OrZero(b.dockerPulls)
      [] OTHER -> OrZero(a.dockerPulls) > OrZero(b.dockerPulls)

\* select().from(mcpServers).where().orderBy().limit(limit).offset(offset)
McpPageQuery(rows, o) ==
    LET matching == {r \in rows : McpWhere(r, o)}
        ordered == StableSort(RowsById(matching), LAMBDA a, b : McpOrderBefore(a, b, o))
    IN  Slice(ordered, o.offset, o.offset + o.limit)

\* select count(*) from mcpServers where ...
McpCountQuery(rows, o) == Cardinality({r \in rows : McpWhere(r, o)})

\* The return statement of getMCPServersPaginated
McpResult(o, results, count) ==
    [servers |-> results, total |-> count, limit |-> o.limit, offset |-> o.offset,
     hasMore |-> HasMore(o.offset, Len(results), count)]

\* search && search.trim()
MktSearchTerm(o) == Trim(o.search)

\* whereClause of getMarketplacesPaginated
MktWhere(row, o) ==
    /\ ActiveOnly(row)
    /\ MktSearchTerm(o) # <<>>
          => \/ ILikeContains(row.name, MktSearchTerm(o))
             \/ ILikeContains(row.displayName, MktSearchTerm(o))
             \/ ILikeContains(row.description, MktSearchTerm(o))
             \/ ILikeContains(row.maintainerName, MktSearchTerm(o))

\* function getOrderBy, as "a sorts before b"
MktOrderBefore(a, b, o) ==
    CASE o.sort = "relevance" ->
            \/ a.installs > b.installs
            \/ a.installs = b.installs /\ a.stars > b.stars
      [] o.sort = "stars" -> a.stars > b.stars
      [] o.sort = "newest" -> a.updatedAt > b.updatedAt
      [] o.sort = "oldest" -> a.updatedAt < b.updatedAt
      [] o.sort = "name" -> LocaleBefore(a.displayName, b.displayName)
      [] o.sort = "name-desc" -> LocaleBefore(b.displayName, a.displayName)
      [] OTHER -> a.stars > b.stars

\* select().from(marketplaces).where().orderBy().limit(limit).offset(offset)
MktPageQuery(rows, o) ==
    LET matching == {r \in rows : MktWhere(r, o)}
        ordered == StableSort(RowsById(matching), LAMBDA a, b : MktOrderBefore(a, b, o))
    IN  Slice(ordered, o.offset, o.offset + o.limit)

\* select count(*) from marketplaces where ...
MktCountQuery(rows, o) == Cardinality({r \in rows : MktWhere(r, o)})

\* The return statement of getMarketplacesPaginated
MktResult(o, results, total) ==
    [marketplaces |-> results, total |-> total,
     hasMore |-> HasMore(o.offset, Len(results), total)]

-----------------------------------------------------------------------------
(* mcp-server-indexer: the statements that write the mcp_servers table     *)

\* /[^a-z0-9-]/ : the characters generateSlug replaces
IsSlugChar(ch) ==
    \/ \E i \in 1..Len(LowerCase) : LowerCase[i] = ch
    \/ ch \in {"0", "1", "2", "3", "4", "5", "6", "7", "8", "9", "-"}

\* .replace(/-+/g, '-')
RECURSIVE CollapseHyphens(_)
CollapseHyphens(str) ==
    IF Len(str) < 2 THEN str
    ELSE IF str[1] = "-" /\ str[2] = "-" THEN CollapseHyphens(Tail(str))
    ELSE <<str[1]>> \o CollapseHyphens(Tail(str))

\* function generateSlug
GenerateSlug(name, sourceRegistry) ==
    LET lower == ToLower(name)
        replaced == [i \in 1..Len(lower) |-> IF IsSlugChar(lower[i]) THEN lower[i] ELSE "-"]
    IN  <<sourceRegistry, "-">> \o CollapseHyphens(replaced)

\* The row that the insert of upsertMCPServer writes when the slug is new
InsertedRow(id, server, sourceRegistry, t) ==
    [id |-> id,
     slug |-> GenerateSlug(server.name, sourceRegistry),
     name |-> server.name,
     displayName |-> server.display_name,
     description |-> server.description,
     category |-> IF server.category = "" THEN "utilities" ELSE server.category,
     tags |-> server.tags,
     sourceRegistry |-> sourceRegistry,
     githubUrl |-> server.github,
     dockerUrl |-> server.docker,
     githubStars |-> OrZero(server.github_stars),
     dockerPulls |-> OrZero(server.docker_pulls),
     npmDownloads |-> OrZero(server.npm_downloads),
     verificationStatus |-> IF server.verification = "" THEN "community"
                            ELSE server.verification,
     active |-> TRUE,
     lastIndexedAt |-> t,
     updatedAt |-> t]

\* Every column takes the excluded value, active included
ConflictUpdatedRowReactivates(old, server, sourceRegistry, t) ==
    InsertedRow(old.id, server, sourceRegistry, t)

\* onConflictDoUpdate: the columns of the set clause take the excluded values
ConflictUpdatedRow(old, server, sourceRegistry, t) ==
    LET new == InsertedRow(old.id, server, sourceRegistry, t)
    IN  [old EXCEPT !.displayName = new.displayName,
                    !.description = new.description,
                    !.category = new.category,
                    !.tags = new.tags,
                    !.githubUrl = new.githubUrl,
                    !.dockerUrl = new.dockerUrl,
                    !.githubStars = new.githubStars,
                    !.dockerPulls = new.dockerPulls,
                    !.npmDownloads = new.npmDownloads,
                    !.verificationStatus = new.verificationStatus,
                    !.lastIndexedAt = new.lastIndexedAt,
                    !.updatedAt = t]

\* function upsertMCPServer: the table after the statement
UpsertMCPServerInsertOnly(rows, server, sourceRegistry, t) ==
    rows \cup {InsertedRow(Cardinality(rows) + 1, server, sourceRegistry, t)}
UpsertMCPServer(rows, server, sourceRegistry, t) ==
    LET slug == GenerateSlug(server.name, sourceRegistry)
    IN  IF \E r \in rows : r.slug = slug
        THEN {IF r.slug = slug THEN ConflictUpdatedRow(r, server, sourceRegistry, t) ELSE r
                 : r \in rows}
        ELSE rows \cup {InsertedRow(Cardinality(rows) + 1, server, sourceRegistry, t)}

\* syncMCPServerStats: update mcpServers set dockerPulls where id
UpdateDockerPulls(rows, id, pulls, t) ==
    {IF r.id = id THEN [r EXCEPT !.dockerPulls = pulls, !.updatedAt = t] ELSE r : r \in rows}

\* syncMCPServerStats: update mcpServers set githubStars where id
UpdateGithubStars(rows, id, stars, t) ==
    {IF r.id = id THEN [r EXCEPT !.githubStars = stars, !.updatedAt = t] ELSE r : r \in rows}

-----------------------------------------------------------------------------
(* The clock *)

TickSteps == {1, CIRCUIT_TTL_MS}

Tick ==
    /\ ticks < MaxTicks
    /\ \E d \in TickSteps : now' = now + d
    /\ ticks' = ticks + 1
    /\ UNCHANGED <<breakerVars, calls, listingVars, merge, fetch, job>>

-----------------------------------------------------------------------------
(* Spec: concurrent safeDbQuery calls.  Call c runs the operation whose     *)
(* result is OpValue(c) and carries the fallback Fallback(c); a call is     *)
(* suspended only at the await of its operation.                            *)

CallIds == 1..NumCalls
OpValue(c) == <<"rows", c>>
Fallback(c) == <<"fallback", c>>
NoResult == [data |-> <<"none", 0>>, fromDb |-> FALSE]

NewCall == [pc |-> "idle", sinceFailure |-> -1, invoked |-> FALSE,
            result |-> NoResult, rejectedInFlight |-> FALSE,
            openAtDone |-> FALSE, freshWindowAtDone |-> FALSE]

\* History: milliseconds between the most recent rejection and the start of a call.
SinceLastReject == IF lastRejectAt < 0 THEN -1 ELSE now - lastRejectAt

\* safeDbQuery up to its first suspension: the circuit check, then either the
\* early return or the call of queryFn.
CallStart(c) ==
    /\ calls[c].pc = "idle"
    /\ IF ShortCircuits(circuitOpen, circuitOpenedAt, now)
       THEN /\ calls' = [calls EXCEPT ![c] =
                   [@ EXCEPT !.pc = "done", !.sinceFailure = SinceLastReject,
                             !.result = OnShortCircuit(Fallback(c)),
                             !.openAtDone = circuitOpen,
                             !.freshWindowAtDone = (circuitOpenedAt = now)]]
            /\ UNCHANGED circuitOpen
       ELSE /\ calls' = [calls EXCEPT ![c] =
                   [@ EXCEPT !.pc = "awaiting", !.sinceFailure = SinceLastReject,
                             !.invoked = TRUE]]
            /\ circuitOpen' = CircuitAfterEntry(circuitOpen, circuitOpenedAt, now)
    /\ UNCHANGED <<clockVars, circuitOpenedAt, lastRejectAt, listingVars, merge, fetch, job>>

\* The operation resolves: return { data, fromDb: true }.
CallResolve(c) ==
    /\ calls[c].pc = "awaiting"
    /\ calls' = [calls EXCEPT ![c] =
            [@ EXCEPT !.pc = "done", !.result = OnResolved(OpValue(c)),
                      !.openAtDone = circuitOpen,
                      !.freshWindowAtDone = (circuitOpenedAt = now)]]
    /\ UNCHANGED <<clockVars, breakerVars, listingVars, merge, fetch, job>>

\* The operation rejects: the catch block opens the circuit.  (History: every
\* other call in flight has now seen a rejection while it was suspended.)
CallReject(c) ==
    /\ calls[c].pc = "awaiting"
    /\ circuitOpen' = TRUE
    /\ circuitOpenedAt' = now
    /\ lastRejectAt' = now
    /\ calls' = [d \in CallIds |->
            IF d = c
            THEN [calls[d] EXCEPT !.pc = "done", !.result = OnRejected(Fallback(c)),
                                  !.openAtDone = TRUE, !.freshWindowAtDone = TRUE]
            ELSE IF calls[d].pc = "awaiting"
                 THEN [calls[d] EXCEPT !.rejectedInFlight = TRUE]
                 ELSE calls[d]]
    /\ UNCHANGED <<clockVars, listingVars, merge, fetch, job>>

Init ==
    /\ now = 0
    /\ ticks = 0
    /\ circuitOpen = FALSE
    /\ circuitOpenedAt = 0
    /\ lastRejectAt = -1
    /\ calls = [c \in CallIds |-> NewCall]
    /\ tables = Idle
    /\ req = Idle
    /\ writes = 0
    /\ merge = Idle
    /\ fetch = Idle
    /\ job = Idle

Next ==
    \/ Tick
    \/ \E c \in CallIds : CallStart(c)
    \/ \E c \in CallIds : CallResolve(c)
    \/ \E c \in CallIds : CallReject(c)

Spec == Init /\ [][Next]_vars

-----------------------------------------------------------------------------
(* SpecMerge: one call of getPluginsPaginated on a healthy database, as a   *)
(* function of the local content, the plugins table and the options.        *)

S_git == <<"g", "i", "t">>
S_Git == <<"G", "i", "t">>
S_GIT == <<"G", "I", "T">>
S_gitlab == <<"g", "i", "t", "l", "a", "b">>
S_db == <<"d", "b">>
S_dev == <<"d", "e", "v">>
S_ops == <<"o", "p", "s">>
S_data == <<"d", "a", "t", "a">>
S_vcs == <<"v", "c", "s">>
S_opsTool == <<"o", "p", "s", " ", "t", "o", "o", "l">>
S_devOps == <<"d", "e", "v", ",", " ", "o", "p", "s">>
ACME_UUID == "0a1b2c3d-0000-4000-8000-000000000001"

\* What the local loaders return, converted by getLocalBuildWithClaudePlugins
LocalItem(id, type, name, description, category, tags) ==
    [type |-> type, name |-> name, description |-> description, category |-> category,
     tags |-> tags, marketplaceId |-> BUILD_WITH_CLAUDE_ID,
     marketplaceName |-> BUILD_WITH_CLAUDE_MARKETPLACE, stars |-> NULL,
     origin |-> "local", id |-> id]

LocalSkillGit == LocalItem(1, "skill", S_Git, S_vcs, S_dev, <<>>)
LocalPluginDb == LocalItem(2, "plugin", S_db, S_data, S_data, <<S_git>>)

LocalCatalogs == {<<LocalSkillGit, LocalPluginDb>>, <<LocalPluginDb>>}

\* Rows of the plugins table
PluginRow(id, type, name, description, categories, keywords, stars, active, updatedAt) ==
    [id |-> id, type |-> type, name |-> name, description |-> description,
     categories |-> categories, keywords |-> keywords, stars |-> stars,
     marketplaceId |-> ACME_UUID, marketplaceName |-> "acme",
     active |-> active, updatedAt |-> updatedAt]

RowSkillGit == PluginRow(1, "skill", S_git, S_opsTool, <<S_ops>>, <<S_Git>>, 5, TRUE, 2)
RowSkillGitInactive == PluginRow(2, "skill", S_GIT, S_vcs, <<S_dev>>, <<>>, 9, FALSE, 3)
RowPluginGitlab == PluginRow(3, "plugin", S_gitlab, S_data, <<S_dev, S_ops>>, <<>>, NULL, TRUE, 1)
RowPluginGit == PluginRow(4, "plugin", S_Git, S_vcs, <<>>, <<S_git>>, 2, TRUE, 4)

PluginTables ==
    {{RowSkillGitInactive} \cup t : t \in SUBSET {RowSkillGit, RowPluginGitlab, RowPluginGit}}

PluginSorts == {"relevance", "stars", "newest", "oldest", "name", "name-desc", "updated"}

MergeOptions ==
    [limit : {1, 50}, offset : {0, 1},
     search : {<<>>, S_git, S_GIT, S_ops},
     sort : PluginSorts,
     type : {"all", "skill", "plugin"},
     marketplaceId : {"", "all", BUILD_WITH_CLAUDE_ID, BUILD_WITH_CLAUDE_MARKETPLACE,
                      "acme", ACME_UUID},
     category : {<<>>, S_ops, S_devOps}]

InitMerge ==
    /\ now = 0
    /\ ticks = 0
    /\ circuitOpen = FALSE
    /\ circuitOpenedAt = 0
    /\ lastRejectAt = -1
    /\ calls = Idle
    /\ tables = Idle
    /\ req = Idle
    /\ writes = 0
    /\ fetch = Idle
    /\ job = Idle
    /\ \E o \in MergeOptions, allLocal \in LocalCatalogs, rows \in PluginTables :
          merge = [pc |-> "ready", o |-> o, allLocal |-> allLocal, rows |-> rows]

\* The ids of the database items in a list of unified plugins
DbIds(items) == {items[i].id : i \in {j \in 1..Len(items) : items[j].origin = "db"}}
LocalIds(items) == {items[i].id : i \in {j \in 1..Len(items) : items[j].origin = "local"}}

\* getPluginsPaginated, the request is for the local marketplace: no query
PluginsLocalOnly ==
    /\ merge.pc = "ready"
    /\ IsBWCOnly(merge.o)
    /\ LET localPlugins == LocalPlugins(merge.o, merge.allLocal)
       IN  merge' = [merge EXCEPT !.pc = "done"] @@
                    [result |-> LocalOnlyResult(merge.o, localPlugins),
                     queried |-> FALSE,
                     listedLocal |-> LocalIds(localPlugins),
                     listedDb |-> {}]
    /\ UNCHANGED <<clockVars, breakerVars, calls, listingVars, fetch, job>>

\* getPluginsPaginated, every other request: both queries resolve, then merge
PluginsMerged ==
    /\ merge.pc = "ready"
    /\ ~IsBWCOnly(merge.o)
    /\ LET localPlugins == LocalPlugins(merge.o, merge.allLocal)
           dbResults == PluginPageQuery(merge.rows, merge.o)
           dbPlugins == [i \in 1..Len(dbResults) |-> UnifiedFromRow(dbResults[i])]
           merged == MergePlugins(localPlugins, dbPlugins)
       IN  merge' = [merge EXCEPT !.pc = "done"] @@
                    [result |-> MergedResult(merge.o, localPlugins, dbResults),
                     queried |-> TRUE,
                     listedLocal |-> LocalIds(merged),
                     listedDb |-> DbIds(merged)]
    /\ UNCHANGED <<clockVars, breakerVars, calls, listingVars, fetch, job>>

NextMerge == PluginsLocalOnly \/ PluginsMerged

SpecMerge == InitMerge /\ [][NextMerge]_vars

\* A local item and an active database row of the same type and the same name
\* ignoring case
SameTypeAndName(l, d) ==
    /\ d.active
    /\ l.type = UnifiedFromRow(d).type
    /\ ToLower(l.name) = ToLower(d.name)

\* C9: when a local item and an active database row share type and name
\* ignoring case and the request does not select an external marketplace, the
\* database row is not in the merged result and the local item is.
C9_LocalShadowsDatabase ==
    (merge.pc = "done" /\ ~IsOtherMarketplace(merge.o))
        => \A i \in 1..Len(merge.allLocal) : \A d \in merge.rows :
              SameTypeAndName(merge.allLocal[i], d) => d.id \notin merge.listedDb

\* The part of C9 the merge does give: a local item that itself passes the
\* request's filter keeps every database row of its key out of the result.
MergeListedLocalWins ==
    (merge.pc = "done" /\ ~IsOtherMarketplace(merge.o))
        => \A i \in 1..Len(merge.allLocal) : \A d \in merge.rows :
              (/\ SameTypeAndName(merge.allLocal[i], d)
               /\ FilterLocalPlugins(<<merge.allLocal[i]>>, merge.o) # <<>>)
                  => /\ d.id \notin merge.listedDb
                     /\ merge.allLocal[i].id \in merge.listedLocal

-----------------------------------------------------------------------------
(* The route handlers: GET /api/mcp-servers/list, /api/plugins/list and    *)
(* /api/marketplaces/list                                                   *)

MAX_LIMIT == 100

\* Math.min(parseInt(limit), 100)
RouteLimit(limit) == IF limit < MAX_LIMIT THEN limit ELSE MAX_LIMIT

\* const validSortOptions of each route and the default each falls back to
ValidSortOptions(svc) ==
    CASE svc = "mcp" -> {"relevance", "stars", "downloads", "name", "updated"}
      [] svc = "plugins" -> {"relevance", "stars", "name", "updated"}
      [] svc = "marketplaces" ->
            {"relevance", "stars", "newest", "oldest", "name", "name-desc"}

DefaultSort(svc) == IF svc = "mcp" THEN "downloads" ELSE "relevance"

RouteSort(svc, sortParam) ==
    IF sortParam \in ValidSortOptions(svc) THEN sortParam ELSE DefaultSort(svc)

\* The options each handler passes to its listing service
McpRouteOptions(q) ==
    [limit |-> RouteLimit(q.limit), offset |-> q.offset, search |-> q.search,
     sort |-> RouteSort("mcp", q.sort), category |-> q.category,
     sourceRegistry |-> IF q.source \in {"all", "official-mcp", "docker", "github", "community"}
                        THEN q.source ELSE "",
     verification |-> IF q.verification \in {"all", "verified", "community", "experimental"}
                      THEN q.verification ELSE ""]

PluginRouteOptions(q) ==
    [limit |-> RouteLimit(q.limit), offset |-> q.offset, search |-> q.search,
     sort |-> RouteSort("plugins", q.sort),
     type |-> IF q.type \in {"all", "subagent", "command", "hook", "skill", "plugin"}
              THEN q.type ELSE "all",
     marketplaceId |-> q.marketplaceId, category |-> q.category]

MktRouteOptions(q) ==
    [limit |-> RouteLimit(q.limit), offset |-> q.offset, search |-> q.search,
     sort |-> RouteSort("marketplaces", q.sort)]

\* return NextResponse.json(result, ...)
RouteOnReturn(result) == [status |-> 200, body |-> result]

\* The catch block of each handler
EmptyListing(svc, o) ==
    CASE svc = "mcp" ->
            [servers |-> <<>>, total |-> 0, limit |-> o.limit, offset |-> o.offset,
             hasMore |-> FALSE]
      [] svc = "plugins" ->
            [plugins |-> <<>>, total |-> 0, limit |-> o.limit, offset |-> o.offset,
             hasMore |-> FALSE]
      [] svc = "marketplaces" ->
            [marketplaces |-> <<>>, total |-> 0, hasMore |-> FALSE]

RouteOnRejectServerError(svc, o) == [status |-> 500, body |-> [error |-> "rejected"]]
RouteOnReject(svc, o) == [status |-> 200, body |-> EmptyListing(svc, o)]

-----------------------------------------------------------------------------
(* SpecListing: list requests served one at a time while the clock runs,   *)
(* queries fail, other callers trip the breaker and the indexer and the    *)
(* stats syncer write the mcp_servers table.                                *)

S_Db == <<"D", "b">>
GITHUB_URL == "https://github.com/acme/git"
DOCKER_URL == "https://hub.docker.com/r/mcp/git"

McpRow(id, source, name, displayName, stars, pulls, active) ==
    [id |-> id, slug |-> GenerateSlug(name, source), name |-> name,
     displayName |-> displayName, description |-> S_vcs, category |-> "developer-tools",
     tags |-> <<>>, sourceRegistry |-> source,
     githubUrl |-> IF source = "docker" THEN "" ELSE GITHUB_URL,
     dockerUrl |-> IF source = "docker" THEN DOCKER_URL ELSE "",
     githubStars |-> stars, dockerPulls |-> pulls, npmDownloads |-> 0,
     verificationStatus |-> "verified", active |-> active,
     lastIndexedAt |-> 0, updatedAt |-> 0]

\* The table at the start: a synced official record and a deactivated Docker
\* record
InitialMcpServers ==
    {McpRow(1, "official-mcp", S_git, S_Git, 3, 0, TRUE),
     McpRow(2, "docker", S_git, S_Git, 0, 4, FALSE)}

\* Records as the fetchers hand them to upsertMCPServer
RawServer(name, displayName, category, github, docker, pulls) ==
    [name |-> name, display_name |-> displayName, description |-> S_data,
     category |-> category, tags |-> <<>>, github |-> github, docker |-> docker,
     github_stars |-> NULL, docker_pulls |-> pulls, npm_downloads |-> NULL,
     verification |-> "verified"]

UpstreamServers ==
    {<<"docker", RawServer(S_db, S_Db, "database", "", DOCKER_URL, 6)>>,
     <<"docker", RawServer(S_git, S_Git, "developer-tools", "", DOCKER_URL, 5)>>}

MarketplaceRow(id, name, displayName, stars, installs, active) ==
    [id |-> id, name |-> name, displayName |-> displayName, description |-> S_data,
     maintainerName |-> S_ops, stars |-> stars, installs |-> installs,
     active |-> active, updatedAt |-> id]

InitialMarketplaces ==
    {MarketplaceRow(1, S_git, S_Git, 2, 7, TRUE),
     MarketplaceRow(2, S_gitlab, S_gitlab, 9, 1, FALSE),
     MarketplaceRow(3, S_db, S_Db, 4, 7, TRUE)}

InitialPlugins == {RowSkillGit, RowSkillGitInactive, RowPluginGitlab}
LocalCatalog == <<LocalSkillGit, LocalPluginDb>>

\* Query strings of the requests
ListLimits == {0, 1}
ListOffsets == {0, 1}

McpQueries ==
    {[limit |-> l, offset |-> f, search |-> x[1], sort |-> "relevance", category |-> "",
      source |-> x[2], verification |-> "any"] :
        l \in ListLimits, f \in ListOffsets,
        x \in {<<<<>>, "">>, <<S_git, "all">>, <<<<>>, "docker">>}}

MktQueries ==
    [limit : ListLimits, offset : ListOffsets, search : {<<>>, S_git}, sort : {"name"}]

PluginQueries ==
    {[limit |-> l, offset |-> f, search |-> x[1], sort |-> "name-desc", type |-> "all",
      marketplaceId |-> x[2], category |-> <<>>] :
        l \in ListLimits, f \in ListOffsets,
        x \in {<<<<>>, "">>, <<S_git, "">>, <<<<>>, BUILD_WITH_CLAUDE_ID>>,
              <<S_git, BUILD_WITH_CLAUDE_MARKETPLACE>>}}

InitListing ==
    /\ now = 0
    /\ ticks = 0
    /\ circuitOpen = FALSE
    /\ circuitOpenedAt = 0
    /\ lastRejectAt = -1
    /\ calls = Idle
    /\ tables = [mcp |-> InitialMcpServers, marketplaces |-> InitialMarketplaces,
                 plugins |-> InitialPlugins]
    /\ req = [pc |-> "idle"]
    /\ writes = 0
    /\ merge = Idle
    /\ fetch = Idle
    /\ job = Idle

\* A handler runs from the resolution of its last await to its response
\* without yielding: nothing else happens in between.
Yielded == req.pc # "done"

\* Time passes until an open breaker's window is over.
WindowElapses ==
    /\ Yielded
    /\ ticks < MaxElapses
    /\ now' = now + CIRCUIT_TTL_MS + 1
    /\ ticks' = ticks + 1
    /\ UNCHANGED <<breakerVars, calls, listingVars, merge, fetch, job>>

\* The operation of a safeDbQuery call of another request, started while the
\* breaker let it through, rejects: its catch block opens the breaker.
OtherCallRejects ==
    /\ Yielded
    /\ circuitOpen' = TRUE
    /\ circuitOpenedAt' = now
    /\ lastRejectAt' = now
    /\ UNCHANGED <<clockVars, calls, listingVars, merge, fetch, job>>

\* indexMCPServers: one upsertMCPServer statement
IndexerUpserts ==
    /\ Yielded
    /\ writes < MaxWrites
    /\ \E u \in UpstreamServers :
          tables' = [tables EXCEPT !.mcp = UpsertMCPServer(@, u[2], u[1], now)]
    /\ writes' = writes + 1
    /\ UNCHANGED <<clockVars, breakerVars, calls, req, merge, fetch, job>>

\* syncMCPServerStats: one update of the pulls or the stars of a loaded record
SyncerUpdates ==
    /\ Yielded
    /\ writes < MaxWrites
    /\ \E r \in tables.mcp :
          /\ r.active
          /\ \/ /\ r.dockerUrl # "" /\ r.sourceRegistry = "docker"
                /\ tables' = [tables EXCEPT !.mcp = UpdateDockerPulls(@, r.id, 9, now)]
             \/ /\ r.githubUrl # ""
                /\ tables' = [tables EXCEPT !.mcp = UpdateGithubStars(@, r.id, 7, now)]
    /\ writes' = writes + 1
    /\ UNCHANGED <<clockVars, breakerVars, calls, req, merge, fetch, job>>

CanStart == req.pc = "idle"

\* A request that has been answered.  outcome is how the listing service ended
\* ("returned" or "rejected"), dbFailed whether a query of the call failed or
\* was short-circuited, inactiveCounted whether total counted an inactive row.
Answered(svc, o, outcome, result, dbFailed, inactiveCounted) ==
    [pc |-> "done", svc |-> svc, o |-> o, outcome |-> outcome, result |-> result,
     dbFailed |-> dbFailed, inactiveCounted |-> inactiveCounted,
     resp |-> IF outcome = "returned" THEN RouteOnReturn(result) ELSE RouteOnReject(svc, o)]

Pending(pc, svc, o) ==
    [pc |-> pc, svc |-> svc, o |-> o, pageRead |-> FALSE, countRead |-> FALSE,
     page |-> <<>>, count |-> 0, dbFailed |-> FALSE, inactiveCounted |-> FALSE]

AnyInactive(rows) == \E r \in rows : ~r.active

\* getMCPServersPaginated ---------------------------------------------------

\* The fallback of the one safeDbQuery call: [[], [{ count: 0 }]]
McpFallback == <<<<>>, 0>>

\* From the destructuring of the safeDbQuery result to the return statement
McpAnswered(o, sq, inactiveCounted) ==
    Answered("mcp", o, "returned", McpResult(o, sq.data[1], sq.data[2]),
             ~sq.fromDb, inactiveCounted)

\* GET /api/mcp-servers/list up to the breaker check of safeDbQuery
McpStart ==
    /\ CanStart
    /\ \E q \in McpQueries :
          LET o == McpRouteOptions(q)
          IN  IF ShortCircuits(circuitOpen, circuitOpenedAt, now)
              THEN /\ req' = McpAnswered(o, OnShortCircuit(McpFallback), FALSE)
                   /\ UNCHANGED circuitOpen
              ELSE /\ req' = Pending("mcp_await", "mcp", o)
                   /\ circuitOpen' = CircuitAfterEntry(circuitOpen, circuitOpenedAt, now)
    /\ UNCHANGED <<clockVars, circuitOpenedAt, lastRejectAt, calls, tables, writes, merge, fetch, job>>

\* The page query of the Promise.all reads the table; when the count query
\* has read too, the operation resolves.
McpReadPage ==
    /\ req.pc = "mcp_await" /\ ~req.pageRead
    /\ LET page == McpPageQuery(tables.mcp, req.o)
       IN  req' = IF req.countRead
                  THEN McpAnswered(req.o, OnResolved(<<page, req.count>>),
                                   req.inactiveCounted)
                  ELSE [req EXCEPT !.pageRead = TRUE, !.page = page]
    /\ UNCHANGED <<clockVars, breakerVars, calls, tables, writes, merge, fetch, job>>

\* The count query of the Promise.all reads the table.
McpReadCount ==
    /\ req.pc = "mcp_await" /\ ~req.countRead
    /\ LET count == McpCountQuery(tables.mcp, req.o)
           inactive == AnyInactive({r \in tables.mcp : McpWhere(r, req.o)})
       IN  req' = IF req.pageRead
                  THEN McpAnswered(req.o, OnResolved(<<req.page, count>>), inactive)
                  ELSE [req EXCEPT !.countRead = TRUE, !.count = count,
                                   !.inactiveCounted = inactive]
    /\ UNCHANGED <<clockVars, breakerVars, calls, tables, writes, merge, fetch, job>>

\* One of the two queries fails: the Promise.all rejects, the catch block of
\* safeDbQuery opens the breaker and hands back the fallback.
McpQueryRejects ==
    /\ req.pc = "mcp_await"
    /\ req' = McpAnswered(req.o, OnRejected(McpFallback), FALSE)
    /\ circuitOpen' = TRUE
    /\ circuitOpenedAt' = now
    /\ lastRejectAt' = now
    /\ UNCHANGED <<clockVars, calls, tables, writes, merge, fetch, job>>

\* getMarketplacesPaginated --------------------------------------------------

\* GET /api/marketplaces/list up to the breaker check of the count call
MktStart ==
    /\ CanStart
    /\ \E q \in MktQueries :
          LET o == MktRouteOptions(q)
          IN  IF ShortCircuits(circuitOpen, circuitOpenedAt, now)
              THEN /\ req' = [Pending("mkt_page_entry", "marketplaces", o)
                                 EXCEPT !.count = OnShortCircuit(0).data,
                                        !.dbFailed = TRUE]
                   /\ UNCHANGED circuitOpen
              ELSE /\ req' = Pending("mkt_count_await", "marketplaces", o)
                   /\ circuitOpen' = CircuitAfterEntry(circuitOpen, circuitOpenedAt, now)
    /\ UNCHANGED <<clockVars, circuitOpenedAt, lastRejectAt, calls, tables, writes, merge, fetch, job>>

\* The count query resolves.
MktCountResolves ==
    /\ req.pc = "mkt_count_await"
    /\ req' = [req EXCEPT !.pc = "mkt_page_entry",
                          !.count = OnResolved(MktCountQuery(tables.marketplaces, req.o)).data,
                          !.inactiveCounted =
                              AnyInactive({r \in tables.marketplaces : MktWhere(r, req.o)})]
    /\ UNCHANGED <<clockVars, breakerVars, calls, tables, writes, merge, fetch, job>>

\* The count query fails: breaker opened, total is the fallback's 0.
MktCountRejects ==
    /\ req.pc = "mkt_count_await"
    /\ req' = [req EXCEPT !.pc = "mkt_page_entry", !.count = OnRejected(0).data,
                          !.dbFailed = TRUE]
    /\ circuitOpen' = TRUE
    /\ circuitOpenedAt' = now
    /\ lastRejectAt' = now
    /\ UNCHANGED <<clockVars, calls, tables, writes, merge, fetch, job>>

\* From the result of the page call to the return statement
MktAnswered(r, sq) ==
    Answered("marketplaces", r.o, "returned", MktResult(r.o, sq.data, r.count),
             r.dbFailed \/ ~sq.fromDb, r.inactiveCounted)

\* The breaker check of the second safeDbQuery call, the one of the page
MktPageEntry ==
    /\ req.pc = "mkt_page_entry"
    /\ IF ShortCircuits(circuitOpen, circuitOpenedAt, now)
       THEN /\ req' = MktAnswered(req, OnShortCircuit(<<>>))
            /\ UNCHANGED circuitOpen
       ELSE /\ req' = [req EXCEPT !.pc = "mkt_page_await"]
            /\ circuitOpen' = CircuitAfterEntry(circuitOpen, circuitOpenedAt, now)
    /\ UNCHANGED <<clockVars, circuitOpenedAt, lastRejectAt, calls, tables, writes, merge, fetch, job>>

\* The page query resolves.
MktPageResolves ==
    /\ req.pc = "mkt_page_await"
    /\ req' = MktAnswered(req, OnResolved(MktPageQuery(tables.marketplaces, req.o)))
    /\ UNCHANGED <<clockVars, breakerVars, calls, tables, writes, merge, fetch, job>>

\* The page query fails.
MktPageRejects ==
    /\ req.pc = "mkt_page_await"
    /\ req' = MktAnswered(req, OnRejected(<<>>))
    /\ circuitOpen' = TRUE
    /\ circuitOpenedAt' = now
    /\ lastRejectAt' = now
    /\ UNCHANGED <<clockVars, calls, tables, writes, merge, fetch, job>>

\* getPluginsPaginated -------------------------------------------------------

\* GET /api/plugins/list up to the first await of getPluginsPaginated; a
\* request for the local marketplace is answered without a query.
PlgStart ==
    /\ CanStart
    /\ \E q \in PluginQueries :
          LET o == PluginRouteOptions(q)
          IN  req' = IF IsBWCOnly(o)
                     THEN Answered("plugins", o, "returned",
                                   LocalOnlyResult(o, LocalPlugins(o, LocalCatalog)),
                                   FALSE, FALSE)
                     ELSE Pending("plg_await", "plugins", o)
    /\ UNCHANGED <<clockVars, breakerVars, calls, tables, writes, merge, fetch, job>>

\* Steps 4 to 6 once both queries of the Promise.all have resolved
PlgAnswered(o, dbResults) ==
    LET localPlugins == LocalPlugins(o, LocalCatalog)
        dbPlugins == [i \in 1..Len(dbResults) |-> UnifiedFromRow(dbResults[i])]
        merged == MergePlugins(localPlugins, dbPlugins)
    IN  Answered("plugins", o, "returned", MergedResult(o, localPlugins, dbResults), FALSE,
                 \E i \in 1..Len(merged) : merged[i].origin = "db" /\ ~merged[i].active)

PlgReadPage ==
    /\ req.pc = "plg_await" /\ ~req.pageRead
    /\ LET page == PluginPageQuery(tables.plugins, req.o)
       IN  req' = IF req.countRead
                  THEN PlgAnswered(req.o, page)
                  ELSE [req EXCEPT !.pageRead = TRUE, !.page = page]
    /\ UNCHANGED <<clockVars, breakerVars, calls, tables, writes, merge, fetch, job>>

PlgReadCount ==
    /\ req.pc = "plg_await" /\ ~req.countRead
    /\ req' = IF req.pageRead
              THEN PlgAnswered(req.o, req.page)
              ELSE [req EXCEPT !.countRead = TRUE,
                               !.count = PluginCountQuery(tables.plugins, req.o)]
    /\ UNCHANGED <<clockVars, breakerVars, calls, tables, writes, merge, fetch, job>>

\* One of the two queries fails: the await throws, getPluginsPaginated rejects
\* and the catch block of the route answers.
PlgQueryRejects ==
    /\ req.pc = "plg_await"
    /\ req' = Answered("plugins", req.o, "rejected", [error |-> "query failed"], TRUE, FALSE)
    /\ UNCHANGED <<clockVars, breakerVars, calls, tables, writes, merge, fetch, job>>

\* The response is sent.
Responds ==
    /\ req.pc = "done"
    /\ req' = [pc |-> "idle"]
    /\ UNCHANGED <<clockVars, breakerVars, calls, tables, writes, merge, fetch, job>>

NextListing ==
    \/ WindowElapses
    \/ OtherCallRejects
    \/ IndexerUpserts
    \/ SyncerUpdates
    \/ McpStart \/ McpReadPage \/ McpReadCount \/ McpQueryRejects
    \/ MktStart \/ MktCountResolves \/ MktCountRejects
    \/ MktPageEntry \/ MktPageResolves \/ MktPageRejects
    \/ PlgStart \/ PlgReadPage \/ PlgReadCount \/ PlgQueryRejects
    \/ Responds

SpecListing == InitListing /\ [][NextListing]_vars

-----------------------------------------------------------------------------
(* SpecFetch: one run of a fetcher of the indexer, fetchOfficialMCPServers *)
(* or fetchDockerMCPServers, against an upstream that answers each page    *)
(* request as it likes.                                                     *)

MAX_PAGES == 20
MaxRequests == 22

\* The loop condition each fetcher tests after a page: the do-while of the
\* official registry and the while of Docker Hub
Continues(source, more, pageCount) ==
    IF source = "official-mcp" THEN more /\ pageCount < MAX_PAGES ELSE more

InitFetch ==
    /\ now = 0
    /\ ticks = 0
    /\ circuitOpen = FALSE
    /\ circuitOpenedAt = 0
    /\ lastRejectAt = -1
    /\ calls = Idle
    /\ tables = Idle
    /\ req = Idle
    /\ writes = 0
    /\ merge = Idle
    /\ fetch = [pc |-> "idle"]
    /\ job = Idle

\* The fetcher is called: no page requested yet.  endless records whether
\* every answer so far reported a further page.
FetchStart ==
    /\ fetch.pc = "idle"
    /\ \E source \in {"official-mcp", "docker"} :
          fetch' = [pc |-> "requesting", source |-> source, requests |-> 0,
                    pageCount |-> 0, servers |-> 0, endless |-> TRUE]
    /\ UNCHANGED <<clockVars, breakerVars, calls, listingVars, merge, job>>

\* A page request is answered: n records, and a cursor or next link or none.
FetchPageOk ==
    /\ fetch.pc = "requesting"
    /\ fetch.requests < MaxRequests
    /\ \E more \in BOOLEAN, n \in {0, 1} :
          fetch' = [fetch EXCEPT
                       !.requests = @ + 1,
                       !.pageCount = IF fetch.source = "official-mcp" THEN @ + 1 ELSE @,
                       !.servers = @ + n,
                       !.endless = @ /\ more,
                       !.pc = IF Continues(fetch.source, more,
                                           IF fetch.source = "official-mcp"
                                           THEN fetch.pageCount + 1 ELSE fetch.pageCount)
                              THEN "requesting" ELSE "returned"]
    /\ UNCHANGED <<clockVars, breakerVars, calls, listingVars, merge, job>>

\* A page request fails or is answered with an error status: the catch block
\* returns no records.
FetchPageFails ==
    /\ fetch.pc = "requesting"
    /\ fetch.requests < MaxRequests
    /\ fetch' = [fetch EXCEPT !.requests = @ + 1, !.servers = 0, !.endless = FALSE,
                              !.pc = "returned"]
    /\ UNCHANGED <<clockVars, breakerVars, calls, listingVars, merge, job>>

NextFetch == FetchStart \/ FetchPageOk \/ FetchPageFails

SpecFetch == InitFetch /\ [][NextFetch]_vars

-----------------------------------------------------------------------------
(* SpecIndex: runs of indexMCPServers, one after the other, against an     *)
(* upstream whose answers do not change, over a table that the stats       *)
(* syncer writes as well.  Each fetch may fail and each upsert may throw.   *)

MaxRuns == 2
MaxSyncWrites == 1

S_dDashDashB == <<"d", "-", "-", "b">>

\* function getShortName
GetShortName(name) ==
    LET slashes == {i \in 1..Len(name) : name[i] = "/"}
        last == IF slashes = {} THEN 0 ELSE CHOOSE i \in slashes : \A j \in slashes : j <= i
        baseName == SubSeq(name, last + 1, Len(name))
        lower == ToLower(IF baseName = <<>> THEN <<"u", "n", "k", "n", "o", "w", "n">>
                         ELSE baseName)
    IN  [i \in 1..Len(lower) |-> IF IsSlugChar(lower[i]) THEN lower[i] ELSE "-"]

\* server.name of the records of the official registry: the second and the
\* third differ in their namespace only
OfficialRegistryNames ==
    <<<<"a", "/", "g", "i", "t">>,
      <<"a", "/", "d", "-", "-", "b">>,
      <<"b", "/", "d", "-", "-", "b">>>>

\* What the two fetchers return when every page request succeeds: the
\* official registry supplies a repository and no stats, Docker Hub an image
\* and its pull count.
IndexUpstream ==
    [s \in {"official-mcp", "docker"} |->
        IF s = "official-mcp"
        THEN <<RawServer(GetShortName(OfficialRegistryNames[1]), S_Git, "developer-tools",
                         GITHUB_URL, "", NULL),
               RawServer(GetShortName(OfficialRegistryNames[2]), S_Db, "database",
                         GITHUB_URL, "", NULL),
               RawServer(GetShortName(OfficialRegistryNames[3]), S_Db, "database",
                         GITHUB_URL, "", NULL)>>
        ELSE <<RawServer(S_db, S_Db, "database", "", DOCKER_URL, 6),
               RawServer(S_git, S_Git, "developer-tools", "", DOCKER_URL, 5)>>]

\* let indexed = 0, failed = 0, skipped = 0, sources = {officialMcp: 0, docker: 0}
IndexCounters == [indexed |-> 0, failed |-> 0, skipped |-> 0, officialMcp |-> 0, docker |-> 0]

\* if (wasIndexed) { indexed++; sources.<source>++ }
CountIndexed(c, source) ==
    IF source = "official-mcp"
    THEN [c EXCEPT !.indexed = @ + 1, !.officialMcp = @ + 1]
    ELSE [c EXCEPT !.indexed = @ + 1, !.docker = @ + 1]

\* catch (error) { failed++ } inside the for loop: the loop goes on with the
\* next record
AfterUpsertThrowsAbort(queue) == <<>>
AfterUpsertThrows(queue) == Tail(queue)

\* History of a run that has fetched nothing yet
NotFetched == [s \in {"official-mcp", "docker"} |-> "none"]

InitIndex ==
    /\ now = 0
    /\ ticks = 0
    /\ circuitOpen = FALSE
    /\ circuitOpenedAt = 0
    /\ lastRejectAt = -1
    /\ calls = Idle
    /\ tables = [mcp |-> InitialMcpServers]
    /\ req = Idle
    /\ writes = 0
    /\ merge = Idle
    /\ fetch = Idle
    /\ job = [pc |-> "idle", run |-> 0, source |-> "", queue |-> <<>>,
              counters |-> IndexCounters,
              fetched |-> NotFetched, attempts |-> {},
              clean |-> TRUE, afterFirst |-> {}, synced |-> <<>>]

\* indexMCPServers is called, some time after the previous run returned.
IndexStart ==
    /\ job.pc \in {"idle", "done"}
    /\ job.run < MaxRuns
    /\ now' = now + 1
    /\ job' = [job EXCEPT !.pc = "fetchOfficial", !.run = @ + 1, !.source = "official-mcp",
                          !.queue = <<>>, !.counters = IndexCounters,
                          !.fetched = NotFetched, !.attempts = {},
                          !.clean = IF job.run = 0 THEN TRUE ELSE @,
                          !.afterFirst = IF job.run = 0 THEN {} ELSE tables.mcp]
    /\ UNCHANGED <<ticks, breakerVars, calls, listingVars, merge, fetch>>

\* await fetchOfficialMCPServers(): all records, or none when a page request
\* failed (the fetcher's catch block returns [])
FetchOfficialReturns ==
    /\ job.pc = "fetchOfficial"
    /\ \E ok \in BOOLEAN :
          job' = [job EXCEPT !.pc = "upserting",
                             !.queue = IF ok THEN IndexUpstream["official-mcp"] ELSE <<>>,
                             !.fetched["official-mcp"] = IF ok THEN "ok" ELSE "failed",
                             !.clean = @ /\ ok]
    /\ UNCHANGED <<clockVars, breakerVars, calls, listingVars, merge, fetch>>

\* The position of the loop's current record in what the fetcher returned
QueueIndex == Len(IndexUpstream[job.source]) - Len(job.queue) + 1

\* await upsertMCPServer(server, source) returns true
UpsertReturns ==
    /\ job.pc = "upserting"
    /\ job.queue # <<>>
    /\ tables' = [tables EXCEPT !.mcp = UpsertMCPServer(@, Head(job.queue), job.source, now)]
    /\ job' = [job EXCEPT !.queue = Tail(@),
                          !.counters = CountIndexed(@, job.source),
                          !.attempts = @ \cup {[source |-> job.source, index |-> QueueIndex,
                                                ok |-> TRUE]}]
    /\ UNCHANGED <<clockVars, breakerVars, calls, req, writes, merge, fetch>>

\* await upsertMCPServer(server, source) throws: the statement wrote nothing
UpsertThrows ==
    /\ job.pc = "upserting"
    /\ job.queue # <<>>
    /\ job' = [job EXCEPT !.queue = AfterUpsertThrows(@),
                          !.counters.failed = @ + 1,
                          !.attempts = @ \cup {[source |-> job.source, index |-> QueueIndex,
                                                ok |-> FALSE]},
                          !.clean = FALSE]
    /\ UNCHANGED <<clockVars, breakerVars, calls, listingVars, merge, fetch>>

\* The loop over the official records is over: await fetchDockerMCPServers()
FetchDockerReturns ==
    /\ job.pc = "upserting"
    /\ job.source = "official-mcp"
    /\ job.queue = <<>>
    /\ \E ok \in BOOLEAN :
          job' = [job EXCEPT !.source = "docker",
                             !.queue = IF ok THEN IndexUpstream["docker"] ELSE <<>>,
                             !.fetched["docker"] = IF ok THEN "ok" ELSE "failed",
                             !.clean = @ /\ ok]
    /\ UNCHANGED <<clockVars, breakerVars, calls, listingVars, merge, fetch>>

\* The loop over the Docker records is over: return result
IndexReturns ==
    /\ job.pc = "upserting"
    /\ job.source = "docker"
    /\ job.queue = <<>>
    /\ job' = [job EXCEPT !.pc = "done"]
    /\ UNCHANGED <<clockVars, breakerVars, calls, listingVars, merge, fetch>>

\* syncMCPServerStats, running on its own schedule, writes the stars it looked
\* up for an active record that has a repository.
StatsSynced ==
    /\ writes < MaxSyncWrites
    /\ \E r \in tables.mcp :
          /\ r.active /\ r.githubUrl # ""
          /\ tables' = [tables EXCEPT !.mcp = UpdateGithubStars(@, r.id, 7, now)]
          /\ job' = [job EXCEPT !.synced = [i \in DOMAIN @ \cup {r.id} |-> 7],
                                !.clean = IF job.run = 0 THEN @ ELSE FALSE]
    /\ writes' = writes + 1
    /\ UNCHANGED <<clockVars, breakerVars, calls, req, merge, fetch>>

NextIndex ==
    \/ IndexStart
    \/ FetchOfficialReturns
    \/ UpsertReturns
    \/ UpsertThrows
    \/ FetchDockerReturns
    \/ IndexReturns
    \/ StatsSynced

SpecIndex == InitIndex /\ [][NextIndex]_vars

-----------------------------------------------------------------------------
(* SpecSync: one pass of syncMCPServerStats.  The load goes through         *)
(* safeDbQuery; each external lookup answers, answers with an error status  *)
(* or fails; each database write succeeds or throws.                        *)

\* An official record with a repository, a deactivated Docker record, a
\* Docker record that carries an image and a repository, and an official
\* record without a repository
InitialSyncServers ==
    {McpRow(1, "official-mcp", S_git, S_Git, 3, 0, TRUE),
     McpRow(2, "docker", S_git, S_Git, 0, 4, FALSE),
     [McpRow(3, "docker", S_db, S_Db, 2, 4, TRUE) EXCEPT !.githubUrl = GITHUB_URL],
     [McpRow(4, "official-mcp", S_dev, S_dev, 0, 0, TRUE) EXCEPT !.githubUrl = ""]}

\* What the external endpoints report
HubPullCount == 9
RepoStargazers == 7

LookupOutcomes == {"ok", "notOk", "error"}

\* The null that a stats fetcher returns in place of its object
NoStats == [null |-> TRUE]

\* function fetchDockerStats: null unless the response is OK
FetchDockerStats(outcome) == IF outcome = "ok" THEN [pulls |-> HubPullCount] ELSE NoStats

\* function fetchGitHubStats: null unless the response is OK
FetchGitHubStats(outcome) == IF outcome = "ok" THEN [stars |-> RepoStargazers] ELSE NoStats

\* The column projection of the load query
LoadedServer(r) ==
    [id |-> r.id, name |-> r.name, sourceRegistry |-> r.sourceRegistry,
     dockerUrl |-> r.dockerUrl, githubUrl |-> r.githubUrl, githubStars |-> r.githubStars,
     dockerPulls |-> r.dockerPulls, npmDownloads |-> r.npmDownloads]

\* select ... from mcpServers where active = true, in an order the query
\* leaves to the database
LoadQuery(rows) ==
    LET loaded == {LoadedServer(r) : r \in {x \in rows : ActiveOnly(x)}}
        n == Cardinality(loaded)
    IN  {q \in [1..n -> loaded] : \A i, k \in 1..n : q[i] = q[k] => i = k}

\* if (server.dockerUrl && server.sourceRegistry === 'docker')
SyncsDocker(server) == server.dockerUrl # "" /\ server.sourceRegistry = "docker"

\* if (server.githubUrl)
SyncsGitHub(server) == server.githubUrl # ""

\* db.insert(mcpServerStats).values(...)
SnapshotRow(rows, server, pulls, stars) ==
    [id |-> Cardinality(rows) + 1, mcpServerId |-> server.id, dockerPulls |-> pulls,
     githubStars |-> stars, npmDownloads |-> server.npmDownloads]

\* if (!statsUpdated) before the snapshot of the stars
InsertsStarsSnapshotAlways(statsUpdated) == TRUE
InsertsStarsSnapshot(statsUpdated) == ~statsUpdated

\* The lookups of a record, as far as the pass has got
NoLookups == [pulls |-> "none", stars |-> "none", threw |-> FALSE]

\* Where the body of the for loop starts for a record
FirstStage(server) ==
    IF SyncsDocker(server) THEN "dockerLookup"
    ELSE IF SyncsGitHub(server) THEN "githubLookup"
    ELSE "recordEnd"

\* The for loop steps to the next record, or the function returns
NextRecord(j) ==
    LET rest == Tail(j.queue)
    IN  [j EXCEPT !.queue = rest, !.statsUpdated = FALSE,
                  !.pc = IF rest = <<>> THEN "done" ELSE FirstStage(Head(rest))]

\* if (statsUpdated) { updated++ } at the end of the try block
EndRecord(j) == NextRecord([j EXCEPT !.updated = IF j.statsUpdated THEN @ + 1 ELSE @])

\* catch (error) { failed++ }
CatchRecord(j) ==
    NextRecord([j EXCEPT !.failed = @ + 1, !.log[Head(j.queue).id].threw = TRUE])

\* After the Docker branch: the GitHub branch, or the end of the try block
AfterDockerBranch(j) ==
    IF SyncsGitHub(Head(j.queue)) THEN [j EXCEPT !.pc = "githubLookup"] ELSE EndRecord(j)

\* return { updated: 0, failed: 0 } of if (!fromDb)
SkippedResultCountsFailure(j) ==
    [j EXCEPT !.pc = "done", !.loadFailed = TRUE, !.updated = 0, !.failed = 1]
SkippedResult(j) == [j EXCEPT !.pc = "done", !.loadFailed = TRUE, !.updated = 0, !.failed = 0]

InitSync ==
    /\ now = 0
    /\ ticks = 0
    /\ circuitOpen = FALSE
    /\ circuitOpenedAt = 0
    /\ lastRejectAt = -1
    /\ calls = Idle
    /\ tables = [mcp |-> InitialSyncServers, stats |-> {}]
    /\ req = Idle
    /\ writes = 0
    /\ merge = Idle
    /\ fetch = Idle
    /\ job = [pc |-> "idle", queue |-> <<>>, statsUpdated |-> FALSE, found |-> NULL,
              updated |-> 0, failed |-> 0, loadFailed |-> FALSE, log |-> <<>>,
              shortCircuited |-> FALSE]

\* syncMCPServerStats is called: the entry check of the safeDbQuery call
SyncStart ==
    /\ job.pc = "idle"
    /\ IF ShortCircuits(circuitOpen, circuitOpenedAt, now)
       THEN /\ job' = IF OnShortCircuit(<<>>).fromDb THEN job
                    ELSE SkippedResult([job EXCEPT !.shortCircuited = TRUE])
            /\ UNCHANGED circuitOpen
       ELSE /\ job' = [job EXCEPT !.pc = "loading"]
            /\ circuitOpen' = CircuitAfterEntry(circuitOpen, circuitOpenedAt, now)
    /\ UNCHANGED <<clockVars, circuitOpenedAt, lastRejectAt, calls, listingVars, merge, fetch>>

\* The load query resolves: the for loop starts
LoadResolves ==
    /\ job.pc = "loading"
    /\ \E q \in LoadQuery(tables.mcp) :
          LET servers == OnResolved(q).data
          IN  job' = [job EXCEPT
                         !.queue = servers,
                         !.log = [id \in {servers[i].id : i \in 1..Len(servers)} |-> NoLookups],
                         !.pc = IF servers = <<>> THEN "done" ELSE FirstStage(Head(servers))]
    /\ UNCHANGED <<clockVars, breakerVars, calls, listingVars, merge, fetch>>

\* The load query rejects: safeDbQuery opens the breaker and returns the
\* fallback with fromDb false
LoadRejects ==
    /\ job.pc = "loading"
    /\ job' = IF OnRejected(<<>>).fromDb THEN job ELSE SkippedResult(job)
    /\ circuitOpen' = TRUE
    /\ circuitOpenedAt' = now
    /\ lastRejectAt' = now
    /\ UNCHANGED <<clockVars, calls, listingVars, merge, fetch>>

\* A record with neither an image of the docker registry nor a repository
RecordWithoutSource ==
    /\ job.pc = "recordEnd"
    /\ job' = EndRecord(job)
    /\ UNCHANGED <<clockVars, breakerVars, calls, listingVars, merge, fetch>>

\* await fetchDockerStats(server.name)
DockerStatsReturn ==
    /\ job.pc = "dockerLookup"
    /\ \E outcome \in LookupOutcomes :
          LET dockerStats == FetchDockerStats(outcome)
              j == [job EXCEPT !.log[Head(job.queue).id].pulls = outcome]
          IN  job' = IF dockerStats # NoStats
                     THEN [j EXCEPT !.pc = "dockerUpdate", !.found = dockerStats.pulls]
                     ELSE AfterDockerBranch(j)
    /\ UNCHANGED <<clockVars, breakerVars, calls, listingVars, merge, fetch>>

\* await db.update(mcpServers).set({ dockerPulls }) returns
DockerPullsUpdated ==
    /\ job.pc = "dockerUpdate"
    /\ tables' = [tables EXCEPT !.mcp = UpdateDockerPulls(@, Head(job.queue).id, job.found, now)]
    /\ job' = [job EXCEPT !.pc = "dockerInsert"]
    /\ UNCHANGED <<clockVars, breakerVars, calls, req, writes, merge, fetch>>

\* await db.insert(mcpServerStats) of the Docker branch returns
DockerSnapshotInserted ==
    /\ job.pc = "dockerInsert"
    /\ LET server == Head(job.queue)
       IN  tables' = [tables EXCEPT !.stats = @ \cup
                         {SnapshotRow(@, server, job.found, server.githubStars)}]
    /\ job' = AfterDockerBranch([job EXCEPT !.statsUpdated = TRUE])
    /\ UNCHANGED <<clockVars, breakerVars, calls, req, writes, merge, fetch>>

\* await fetchGitHubStats(server.githubUrl)
GitHubStatsReturn ==
    /\ job.pc = "githubLookup"
    /\ \E outcome \in LookupOutcomes :
          LET githubStats == FetchGitHubStats(outcome)
              j == [job EXCEPT !.log[Head(job.queue).id].stars = outcome]
          IN  job' = IF githubStats # NoStats
                     THEN [j EXCEPT !.pc = "githubUpdate", !.found = githubStats.stars]
                     ELSE EndRecord(j)
    /\ UNCHANGED <<clockVars, breakerVars, calls, listingVars, merge, fetch>>

\* await db.update(mcpServers).set({ githubStars }) returns; without a
\* snapshot to insert the try block is at its end
GitHubStarsUpdated ==
    /\ job.pc = "githubUpdate"
    /\ tables' = [tables EXCEPT !.mcp = UpdateGithubStars(@, Head(job.queue).id, job.found, now)]
    /\ job' = IF InsertsStarsSnapshot(job.statsUpdated)
              THEN [job EXCEPT !.pc = "githubInsert"]
              ELSE EndRecord([job EXCEPT !.statsUpdated = TRUE])
    /\ UNCHANGED <<clockVars, breakerVars, calls, req, writes, merge, fetch>>

\* await db.insert(mcpServerStats) of the GitHub branch returns
GitHubSnapshotInserted ==
    /\ job.pc = "githubInsert"
    /\ LET server == Head(job.queue)
       IN  tables' = [tables EXCEPT !.stats = @ \cup
                         {SnapshotRow(@, server, server.dockerPulls, job.found)}]
    /\ job' = EndRecord([job EXCEPT !.statsUpdated = TRUE])
    /\ UNCHANGED <<clockVars, breakerVars, calls, req, writes, merge, fetch>>

\* One of the record's database writes throws
SyncWriteThrows ==
    /\ job.pc \in {"dockerUpdate", "dockerInsert", "githubUpdate", "githubInsert"}
    /\ job' = CatchRecord(job)
    /\ UNCHANGED <<clockVars, breakerVars, calls, listingVars, merge, fetch>>

NextSync ==
    \/ Tick
    \/ OtherCallRejects
    \/ SyncStart
    \/ LoadResolves
    \/ LoadRejects
    \/ RecordWithoutSource
    \/ DockerStatsReturn
    \/ DockerPullsUpdated
    \/ DockerSnapshotInserted
    \/ GitHubStatsReturn
    \/ GitHubStarsUpdated
    \/ GitHubSnapshotInserted
    \/ SyncWriteThrows

SpecSync == InitSync /\ [][NextSync]_vars

-----------------------------------------------------------------------------
(* SpecSearch: each listing service called once, all its queries           *)
(* succeeding, together with a second call whose options differ from the   *)
(* first's in the letter case of the search term or in one categorical     *)
(* filter left out.                                                         *)

S_all == <<"a", "l", "l">>
S_dbGit == <<"d", "b", "-", "g", "i", "t">>
S_gitOps == <<"g", "i", "t", " ", "o", "p", "s">>

\* For the term "git": an exact name, a name prefix, a name that contains the
\* term under a display name that does not, a description, a tag, and a
\* record without the term
SearchMcpServers ==
    {McpRow(1, "official-mcp", S_git, S_Git, 3, 0, TRUE),
     [McpRow(2, "docker", S_gitlab, S_gitlab, 0, 4, TRUE) EXCEPT !.category = "database"],
     [McpRow(3, "docker", S_dbGit, S_Db, 0, 9, TRUE) EXCEPT !.verificationStatus = "community"],
     [McpRow(4, "official-mcp", S_ops, S_ops, 0, 0, TRUE) EXCEPT !.description = S_gitOps],
     [McpRow(5, "official-mcp", S_dev, S_dev, 0, 0, TRUE) EXCEPT !.tags = <<S_git>>],
     [McpRow(6, "docker", S_data, S_data, 0, 1, TRUE) EXCEPT !.category = "database"]}

SearchPlugins ==
    InitialPlugins \cup
    {PluginRow(5, "plugin", S_ops, S_data, <<S_ops>>, <<S_git>>, 1, TRUE, 5),
     PluginRow(6, "plugin", S_dbGit, S_data, <<S_dev>>, <<>>, 3, TRUE, 6),
     PluginRow(7, "command", S_dev, S_gitOps, <<S_dev>>, <<>>, 0, TRUE, 7)}

SearchTerms == {<<>>, S_git, S_GIT, S_ops}

McpSearchOptions ==
    [limit : {50}, offset : {0}, search : SearchTerms, sort : {"relevance", "name"},
     category : {"", "all", "database"}, sourceRegistry : {"", "all", "docker"},
     verification : {"", "all", "community"}]

PluginSearchOptions ==
    [limit : {50}, offset : {0}, search : SearchTerms, sort : {"relevance", "name"},
     type : {"", "all", "skill"},
     marketplaceId : {"", "all", BUILD_WITH_CLAUDE_ID, "acme"},
     category : {<<>>, S_all, S_ops}]

MktSearchOptions ==
    [limit : {50}, offset : {0}, search : SearchTerms \cup {S_Git, S_db, S_Db, S_data},
     sort : {"relevance", "name", "stars"}]

\* getMCPServersPaginated when its queries resolve
McpListing(rows, o) == McpResult(o, McpPageQuery(rows, o), McpCountQuery(rows, o))

\* getPluginsPaginated when its queries resolve
PluginListing(rows, allLocal, o) ==
    IF IsBWCOnly(o)
    THEN LocalOnlyResult(o, LocalPlugins(o, allLocal))
    ELSE MergedResult(o, LocalPlugins(o, allLocal), PluginPageQuery(rows, o))

\* getMarketplacesPaginated when its queries resolve
MktListing(rows, o) == MktResult(o, MktPageQuery(rows, o), MktCountQuery(rows, o))

\* The categorical filters of a service's options
Dimensions(svc) ==
    IF svc = "mcp" THEN {"category", "sourceRegistry", "verification"}
    ELSE IF svc = "plugins" THEN {"type", "marketplaceId", "category"}
    ELSE {}

\* An option that is not passed, and the sentinel, in the option's type
AbsentValue(svc, d) == IF svc = "plugins" /\ d = "category" THEN <<>> ELSE ""
AllValue(svc, d) == IF svc = "plugins" /\ d = "category" THEN S_all ELSE "all"

\* o2 is o with another spelling of the same search term
CaseTwin(o, o2) ==
    /\ o.search # o2.search
    /\ ToLower(o.search) = ToLower(o2.search)
    /\ o2 = [o EXCEPT !.search = o2.search]

\* o2 is o without the filter d
DropTwin(svc, o, o2, d) ==
    /\ o[d] # AbsentValue(svc, d)
    /\ o2 = [o EXCEPT ![d] = AbsentValue(svc, d)]

Twins(svc, o, o2) == CaseTwin(o, o2) \/ \E d \in Dimensions(svc) : DropTwin(svc, o, o2, d)

\* The same request for another page: the second item alone
PageTwin(o) == [o EXCEPT !.limit = 1, !.offset = 1]

Searched(svc, o, o2, result, twinResult) ==
    [pc |-> "done", svc |-> svc, o |-> o, twin |-> o2, result |-> result,
     twinResult |-> twinResult]

InitSearch ==
    /\ now = 0
    /\ ticks = 0
    /\ circuitOpen = FALSE
    /\ circuitOpenedAt = 0
    /\ lastRejectAt = -1
    /\ calls = Idle
    /\ tables = [mcp |-> SearchMcpServers, marketplaces |-> InitialMarketplaces,
                 plugins |-> SearchPlugins]
    /\ req = [pc |-> "idle"]
    /\ writes = 0
    /\ merge = Idle
    /\ fetch = Idle
    /\ job = Idle

McpSearched ==
    /\ req.pc = "idle"
    /\ \E o \in McpSearchOptions : \E o2 \in McpSearchOptions \cup {PageTwin(o)} :
          /\ Twins("mcp", o, o2) \/ o2 = PageTwin(o)
          /\ req' = Searched("mcp", o, o2, McpListing(tables.mcp, o), McpListing(tables.mcp, o2))
    /\ UNCHANGED <<clockVars, breakerVars, calls, tables, writes, merge, fetch, job>>

PluginsSearched ==
    /\ req.pc = "idle"
    /\ \E o \in PluginSearchOptions : \E o2 \in PluginSearchOptions \cup {PageTwin(o)} :
          /\ Twins("plugins", o, o2) \/ o2 = PageTwin(o)
          /\ req' = Searched("plugins", o, o2,
                             PluginListing(tables.plugins, LocalCatalog, o),
                             PluginListing(tables.plugins, LocalCatalog, o2))
    /\ UNCHANGED <<clockVars, breakerVars, calls, tables, writes, merge, fetch, job>>

MarketplacesSearched ==
    /\ req.pc = "idle"
    /\ \E o \in MktSearchOptions : \E o2 \in MktSearchOptions \cup {PageTwin(o)} :
          /\ Twins("marketplaces", o, o2) \/ o2 = PageTwin(o)
          /\ req' = Searched("marketplaces", o, o2, MktListing(tables.marketplaces, o),
                             MktListing(tables.marketplaces, o2))
    /\ UNCHANGED <<clockVars, breakerVars, calls, tables, writes, merge, fetch, job>>

NextSearch == McpSearched \/ PluginsSearched \/ MarketplacesSearched

SpecSearch == InitSearch /\ [][NextSearch]_vars

-----------------------------------------------------------------------------
(* SpecParams: the limit parameter of a list request, from the query       *)
(* string to the options of the listing service.  A JavaScript number is a  *)
(* record: NaN, or an integer n.                                            *)

MaxParamLen == 3

NaN == [nan |-> TRUE, n |-> 0]
Num(n) == [nan |-> FALSE, n |-> n]

Digits == <<"0", "1", "2", "3", "4", "5", "6", "7", "8", "9">>
IsDigit(ch) == \E i \in 1..Len(Digits) : Digits[i] = ch
DigitValue(ch) == (CHOOSE i \in 1..Len(Digits) : Digits[i] = ch) - 1

\* The longest prefix of decimal digits
RECURSIVE LeadingDigits(_)
LeadingDigits(str) ==
    IF str # <<>> /\ IsDigit(Head(str)) THEN <<Head(str)>> \o LeadingDigits(Tail(str)) ELSE <<>>

RECURSIVE DecimalValue(_)
DecimalValue(digits) ==
    IF digits = <<>> THEN 0
    ELSE 10 * DecimalValue(SubSeq(digits, 1, Len(digits) - 1)) + DigitValue(digits[Len(digits)])

\* parseInt(str, 10): leading blanks, a sign, then digits up to the first
\* other character; NaN without a digit
ParseInt(str) ==
    LET t == TrimLeft(str)
        signed == t # <<>> /\ Head(t) \in {"-", "+"}
        digits == LeadingDigits(IF signed THEN Tail(t) ELSE t)
    IN  IF digits = <<>> THEN NaN
        ELSE IF signed /\ Head(t) = "-" THEN Num(0 - DecimalValue(digits))
        ELSE Num(DecimalValue(digits))

\* The '50' or '20' after searchParams.get('limit') ||
DefaultLimit(svc) == IF svc = "marketplaces" THEN <<"2", "0">> ELSE <<"5", "0">>

\* const limit = Math.min(parseInt(searchParams.get('limit') || default, 10), 100);
\* raw is <<>> for a missing or empty parameter; Math.min of NaN is NaN
RouteLimitParam(svc, raw) ==
    LET parsed == ParseInt(IF raw = <<>> THEN DefaultLimit(svc) ELSE raw)
    IN  IF parsed.nan THEN NaN ELSE Num(RouteLimit(parsed.n))

\* The values of the limit parameter: missing, numeric, negative, non-numeric
\* type SortOption of plugin-db-server
SortOption == {"relevance", "stars", "newest", "oldest", "name", "name-desc", "updated"}

\* The SelectItem values of the sort menu of SkillsPageClient
SkillsSortItems == {"relevance", "stars", "newest", "oldest", "name", "name-desc"}

\* Values of the sort parameter; the empty string is the absent parameter
SortParams == SortOption \cup SkillsSortItems \cup {"", "downloads", "rank"}

ParamStrings ==
    UNION {[1..n -> {"0", "1", "9", "-", "a", " "}] : n \in 0..MaxParamLen}

InitParams ==
    /\ now = 0
    /\ ticks = 0
    /\ circuitOpen = FALSE
    /\ circuitOpenedAt = 0
    /\ lastRejectAt = -1
    /\ calls = Idle
    /\ tables = Idle
    /\ req = [pc |-> "idle"]
    /\ writes = 0
    /\ merge = Idle
    /\ fetch = Idle
    /\ job = Idle

\* The request as the handler has read its limit and calls the service
Called(svc, raw, sortParam) ==
    [pc |-> "called", svc |-> svc, raw |-> raw, limit |-> RouteLimitParam(svc, raw),
     sortParam |-> sortParam, sort |-> RouteSort(svc, sortParam)]

\* GET /api/mcp-servers/list
McpRouteReadsLimit ==
    /\ req.pc = "idle"
    /\ \E raw \in ParamStrings, sortParam \in SortParams :
          req' = Called("mcp", raw, sortParam)
    /\ UNCHANGED <<clockVars, breakerVars, calls, tables, writes, merge, fetch, job>>

\* GET /api/plugins/list
PluginRouteReadsLimit ==
    /\ req.pc = "idle"
    /\ \E raw \in ParamStrings, sortParam \in SortParams :
          req' = Called("plugins", raw, sortParam)
    /\ UNCHANGED <<clockVars, breakerVars, calls, tables, writes, merge, fetch, job>>

\* GET /api/marketplaces/list
MktRouteReadsLimit ==
    /\ req.pc = "idle"
    /\ \E raw \in ParamStrings, sortParam \in SortParams :
          req' = Called("marketplaces", raw, sortParam)
    /\ UNCHANGED <<clockVars, breakerVars, calls, tables, writes, merge, fetch, job>>

NextParams == McpRouteReadsLimit \/ PluginRouteReadsLimit \/ MktRouteReadsLimit

SpecParams == InitParams /\ [][NextParams]_vars

-----------------------------------------------------------------------------
(* SpecFilter: one item of the local catalogue and the plugins row carrying *)
(* the same data, put through filterLocalPlugins and through the where      *)
(* clause of the plugin query under the same options                        *)

FilterItems ==
    {LocalItem(1, type, name, description, category, tags) :
        type \in {"skill", "plugin"}, name \in {S_git, S_Git, S_db},
        description \in {S_vcs, S_gitOps}, category \in {S_dev, S_ops},
        tags \in {<<>>, <<S_git>>, <<S_gitlab>>}}

FilterOptions ==
    [limit : {50}, offset : {0}, sort : {"relevance"}, marketplaceId : {""},
     type : {"", "all", "skill"}, category : {<<>>, S_ops, S_devOps},
     search : {<<>>, S_git, S_GIT}]

\* The active row of the plugins table that carries the data of a local item
RowCarrying(p) ==
    PluginRow(p.id, p.type, p.name, p.description, <<p.category>>, p.tags, NULL, TRUE, 1)

InitFilter ==
    /\ now = 0
    /\ ticks = 0
    /\ circuitOpen = FALSE
    /\ circuitOpenedAt = 0
    /\ lastRejectAt = -1
    /\ calls = Idle
    /\ tables = Idle
    /\ req = [pc |-> "idle"]
    /\ writes = 0
    /\ merge = Idle
    /\ fetch = Idle
    /\ job = Idle

\* filterLocalPlugins over the one-item catalogue
LocalFilterApplied ==
    /\ req.pc = "idle"
    /\ \E p \in FilterItems, o \in FilterOptions :
          req' = [pc |-> "filtered", item |-> p, o |-> o,
                  kept |-> FilterLocalPlugins(<<p>>, o) = <<p>>]
    /\ UNCHANGED <<clockVars, breakerVars, calls, tables, writes, merge, fetch, job>>

\* the where clause of the plugin query over the row with the same data
WhereApplied ==
    /\ req.pc = "filtered"
    /\ req' = [pc |-> "compared", item |-> req.item, o |-> req.o, kept |-> req.kept,
               selected |-> PluginWhere(RowCarrying(req.item), req.o)]
    /\ UNCHANGED <<clockVars, breakerVars, calls, tables, writes, merge, fetch, job>>

NextFilter == LocalFilterApplied \/ WhereApplied

SpecFilter == InitFilter /\ [][NextFilter]_vars

-----------------------------------------------------------------------------
(* SpecClient: SkillsPageClient.  The page holds the displayed skills, the  *)
(* hasMore and isLoading flags, the selected filter combination and the     *)
(* offset ref; its fetches of /api/plugins/list are in flight until their   *)
(* responses arrive, in any order.  An item is tagged with the combination  *)
(* and the rank under which the server lists it.                            *)

MaxFilterChanges == 2
MaxLoadMore == 2

ITEMS_PER_PAGE == 24

\* The combinations of search, categories, marketplace and sort that the
\* page selects: the marketplace menu at "all" or at one marketplace
FilterCombinations == {"all", BUILD_WITH_CLAUDE_ID}

\* What getPluginsPaginated lists for a combination
ServerList(combination) ==
    [i \in 1..(IF combination = "all" THEN 50 ELSE 30) |->
        [combination |-> combination, rank |-> i]]

\* The body of the response to a request: the page and hasMore
ResponseData(r) ==
    LET all == ServerList(r.combination)
        page == Slice(all, r.offset, r.offset + ITEMS_PER_PAGE)
    IN  [plugins |-> page, hasMore |-> HasMore(r.offset, Len(page), Len(all))]

\* fetch(`/api/plugins/list?${params}`) is called
Sent(page, kind, offset) ==
    [page EXCEPT !.isLoading = TRUE,
                 !.sent = @ + 1,
                 !.inflight = @ \cup {[id |-> page.sent + 1, kind |-> kind,
                                       combination |-> page.selected, offset |-> offset]}]

\* The server-rendered page: the first items of the combination "all"
InitClient ==
    /\ now = 0
    /\ ticks = 0
    /\ circuitOpen = FALSE
    /\ circuitOpenedAt = 0
    /\ lastRejectAt = -1
    /\ calls = Idle
    /\ tables = Idle
    /\ req = Idle
    /\ writes = 0
    /\ merge = Idle
    /\ job = Idle
    /\ LET initial == ResponseData([combination |-> "all", offset |-> 0])
       IN  fetch = [skills |-> initial.plugins, hasMore |-> initial.hasMore,
                    isLoading |-> FALSE, selected |-> "all",
                    offset |-> Len(initial.plugins), inflight |-> {}, sent |-> 0,
                    changes |-> 0, loads |-> 0, failed |-> FALSE, stale |-> FALSE]

\* A filter is changed and the effect runs fetchFiltered up to its await
FilterChanges ==
    /\ fetch.changes < MaxFilterChanges
    /\ \E c \in FilterCombinations \ {fetch.selected} :
          fetch' = Sent([fetch EXCEPT !.selected = c, !.changes = @ + 1,
                                      !.stale = @ \/ fetch.inflight # {}],
                        "filter", 0)
    /\ UNCHANGED <<clockVars, breakerVars, calls, listingVars, merge, job>>

\* The sentinel is in view: loadMore up to its await
LoadMore ==
    /\ fetch.loads < MaxLoadMore
    /\ ~fetch.isLoading /\ fetch.hasMore
    /\ fetch' = Sent([fetch EXCEPT !.loads = @ + 1], "more", fetch.offset)
    /\ UNCHANGED <<clockVars, breakerVars, calls, listingVars, merge, job>>

\* fetchFiltered after its await: the response replaces the list
FilterResponseArrives ==
    /\ \E r \in fetch.inflight :
          /\ r.kind = "filter"
          /\ LET data == ResponseData(r)
             IN  fetch' = [fetch EXCEPT !.skills = data.plugins,
                                        !.hasMore = data.hasMore,
                                        !.offset = Len(data.plugins),
                                        !.isLoading = FALSE,
                                        !.inflight = @ \ {r}]
    /\ UNCHANGED <<clockVars, breakerVars, calls, listingVars, merge, job>>

\* loadMore after its await: the response is appended to the list
MoreResponseArrives ==
    /\ \E r \in fetch.inflight :
          /\ r.kind = "more"
          /\ LET data == ResponseData(r)
             IN  fetch' = [fetch EXCEPT !.skills = @ \o data.plugins,
                                        !.hasMore = data.hasMore,
                                        !.offset = @ + Len(data.plugins),
                                        !.isLoading = FALSE,
                                        !.inflight = @ \ {r}]
    /\ UNCHANGED <<clockVars, breakerVars, calls, listingVars, merge, job>>

\* The fetch rejects: the catch block logs, the finally block clears isLoading
FetchRejects ==
    /\ \E r \in fetch.inflight :
          fetch' = [fetch EXCEPT !.isLoading = FALSE, !.inflight = @ \ {r},
                                 !.failed = TRUE]
    /\ UNCHANGED <<clockVars, breakerVars, calls, listingVars, merge, job>>

NextClient ==
    \/ FilterChanges
    \/ LoadMore
    \/ FilterResponseArrives
    \/ MoreResponseArrives
    \/ FetchRejects

SpecClient == InitClient /\ [][NextClient]_vars

-----------------------------------------------------------------------------
(* Claims about the circuit breaker *)

Started(c) == calls[c].pc # "idle"
StartedAfterFailure(c) == Started(c) /\ calls[c].sinceFailure >= 0
Finished(c) == calls[c].pc = "done"

\* C1: a call started within 30 seconds after an operation rejected returns its
\* own fallback with fromDb = false and never invokes its operation.
C1_FallbackWithinWindow ==
    \A c \in CallIds :
        (StartedAfterFailure(c) /\ calls[c].sinceFailure <= 30000)
            => /\ Finished(c)
               /\ ~calls[c].invoked
               /\ calls[c].result = [data |-> <<"fallback", c>>, fromDb |-> FALSE]

C1_Witness ==
    \E c \in CallIds :
        /\ StartedAfterFailure(c)
        /\ calls[c].sinceFailure = 30000
        /\ Finished(c)
        /\ \E d \in CallIds : d # c /\ Finished(d) /\ calls[d].result.fromDb

\* C2 as stated: a call started more than 30 seconds after the most recent
\* failure invokes its operation; when the operation succeeds the call returns
\* (result, true) and the breaker is closed; when it rejects the breaker is open
\* with a window starting at the rejection.
C2_Original ==
    \A c \in CallIds :
        (StartedAfterFailure(c) /\ calls[c].sinceFailure > 30000)
            => /\ calls[c].invoked
               /\ (Finished(c) /\ calls[c].result.fromDb)
                    => /\ calls[c].result.data = <<"rows", c>>
                       /\ ~calls[c].openAtDone
               /\ (Finished(c) /\ ~calls[c].result.fromDb)
                    => /\ calls[c].openAtDone
                       /\ calls[c].freshWindowAtDone

\* C2 amended: as C2, but after a success the breaker is closed unless the
\* operation of another call rejected while this call was in flight.
C2_RetryAfterWindow ==
    \A c \in CallIds :
        (StartedAfterFailure(c) /\ calls[c].sinceFailure > 30000)
            => /\ calls[c].invoked
               /\ (Finished(c) /\ calls[c].result.fromDb)
                    => /\ calls[c].result.data = <<"rows", c>>
                       /\ calls[c].openAtDone => calls[c].rejectedInFlight
               /\ (Finished(c) /\ ~calls[c].result.fromDb)
                    => /\ calls[c].openAtDone
                       /\ calls[c].freshWindowAtDone

C2_Witness ==
    \E c, d \in CallIds :
        /\ c # d
        /\ StartedAfterFailure(c) /\ calls[c].sinceFailure > 30000
        /\ Finished(c) /\ calls[c].result.fromDb /\ ~calls[c].openAtDone
        /\ StartedAfterFailure(d) /\ calls[d].sinceFailure > 30000
        /\ Finished(d) /\ ~calls[d].result.fromDb

\* C3: under every interleaving a finished call holds either the value of its
\* own operation flagged fromDb = true or its own fallback flagged fromDb = false.
C3_OwnDataShape ==
    \A c \in CallIds :
        /\ calls[c].pc \in {"idle", "awaiting", "done"}
        /\ Finished(c)
            => \/ calls[c].result = [data |-> <<"rows", c>>, fromDb |-> TRUE]
               \/ calls[c].result = [data |-> <<"fallback", c>>, fromDb |-> FALSE]

\* Two calls that were in flight together, one resolved and one rejected.
C3_Witness ==
    \E c, d \in CallIds :
        /\ c # d
        /\ Finished(c) /\ calls[c].result.fromDb /\ calls[c].rejectedInFlight
        /\ Finished(d) /\ ~calls[d].result.fromDb /\ calls[d].invoked

-----------------------------------------------------------------------------
(* Claims about the listings *)

\* The item array of a listing
ItemsOf(svc, body) ==
    CASE svc = "mcp" -> body.servers
      [] svc = "plugins" -> body.plugins
      [] svc = "marketplaces" -> body.marketplaces

ServiceReturned == req.pc = "done" /\ req.outcome = "returned"

\* C4: in each listing service, a call of which a database query failed or was
\* short-circuited by the breaker returns an empty page with total 0 and
\* hasMore false, and does not reject.
C4_FailureYieldsEmpty ==
    (req.pc = "done" /\ req.dbFailed)
        => /\ req.outcome = "returned"
           /\ ItemsOf(req.svc, req.result) = <<>>
           /\ req.result.total = 0
           /\ req.result.hasMore = FALSE

\* A payload of the shape the route documents
ValidPayload(svc, o, body) ==
    /\ DOMAIN body = IF svc = "marketplaces"
                     THEN {"marketplaces", "total", "hasMore"}
                     ELSE {IF svc = "mcp" THEN "servers" ELSE "plugins",
                           "total", "limit", "offset", "hasMore"}
    /\ DOMAIN ItemsOf(svc, body) = 1..Len(ItemsOf(svc, body))
    /\ body.total \in Nat
    /\ body.hasMore \in BOOLEAN
    /\ svc # "marketplaces" => body.limit = o.limit /\ body.offset = o.offset

C6_HasMoreIff ==
    ServiceReturned
        => (req.result.hasMore
              <=> req.o.offset + Len(ItemsOf(req.svc, req.result)) < req.result.total)

\* A page from the database that stops short of the total, hasMore true
C6_Witness ==
    /\ ServiceReturned
    /\ ~req.dbFailed
    /\ req.svc # "plugins"
    /\ Len(ItemsOf(req.svc, req.result)) > 0
    /\ req.result.hasMore

\* C7: every result of a listing service with offset within its total has at
\* most limit items and offset + the number of items <= total, also when the
\* count and the page come from separate safeDbQuery calls of which one gave
\* the fallback.
C7_PageWithinTotal ==
    (ServiceReturned /\ req.o.offset <= req.result.total)
        => /\ Len(ItemsOf(req.svc, req.result)) <= req.o.limit
           /\ req.o.offset + Len(ItemsOf(req.svc, req.result)) <= req.result.total

\* Whether an item of a listing is an inactive database record
ItemInactive(svc, item) ==
    IF svc = "plugins" THEN item.origin = "db" /\ ~item.active ELSE ~item.active

\* C8: no inactive database record is in a page a listing service returns or
\* counted in its total, whatever the options and whatever the indexer and
\* the stats syncer wrote before.
C8_InactiveExcluded ==
    ServiceReturned
        => /\ \A i \in 1..Len(ItemsOf(req.svc, req.result)) :
                 ~ItemInactive(req.svc, ItemsOf(req.svc, req.result)[i])
           /\ ~req.inactiveCounted

\* A non-empty page of servers returned after the indexer upserted over an
\* inactive record that matches the request's filters
C8_Witness ==
    /\ ServiceReturned
    /\ req.svc = "mcp"
    /\ ~req.dbFailed
    /\ Len(req.result.servers) > 0
    /\ \E r \in tables.mcp :
          /\ ~r.active
          /\ r.dockerPulls = 5
          /\ McpWhere([r EXCEPT !.active = TRUE], req.o)

-----------------------------------------------------------------------------
(* Claims about the indexer *)

\* C10: a run of either fetcher against an upstream that reports a further
\* page in every answer issues at most MAX_PAGES page requests.
C10_PageCeiling ==
    (fetch.pc # "idle" /\ fetch.endless) => fetch.requests <= MAX_PAGES

\* What the code gives: the run against the official registry stops at the
\* ceiling.
OfficialPageCeiling ==
    (fetch.pc # "idle" /\ fetch.source = "official-mcp")
        => /\ fetch.requests <= MAX_PAGES
           /\ (fetch.requests = MAX_PAGES /\ fetch.endless) => fetch.pc = "returned"

-----------------------------------------------------------------------------
(* Claims about the indexer's runs *)

Attempted(source, index, ok) == [source |-> source, index |-> index, ok |-> ok] \in job.attempts

SlugStored(server, source) == \E r \in tables.mcp : r.slug = GenerateSlug(server.name, source)

\* C11: when a run of indexMCPServers returns, failed counts exactly the
\* upserts that threw, every record a fetcher returned was handed to
\* upsertMCPServer whatever happened to the records before it, each record
\* whose upsert returned is stored, and the Docker source was fetched whether
\* or not the fetch of the official registry failed.
C11_FailureIsolated ==
    job.pc = "done" =>
        /\ job.counters.failed = Cardinality({a \in job.attempts : ~a.ok})
        /\ job.counters.indexed = Cardinality({a \in job.attempts : a.ok})
        /\ job.fetched["docker"] # "none"
        /\ \A s \in {"official-mcp", "docker"} :
              job.fetched[s] = "ok" =>
                 \A i \in 1..Len(IndexUpstream[s]) :
                    /\ Attempted(s, i, TRUE) \/ Attempted(s, i, FALSE)
                    /\ Attempted(s, i, TRUE) => SlugStored(IndexUpstream[s][i], s)

\* The fetch of the official registry failed, the upsert of the first Docker
\* record threw and the second Docker record was upserted all the same.
C11_Witness ==
    /\ job.pc = "done"
    /\ job.fetched["official-mcp"] = "failed"
    /\ Attempted("docker", 1, FALSE)
    /\ Attempted("docker", 2, TRUE)
    /\ job.counters.failed = 1
    /\ job.counters.docker = 1

\* The columns that are not timestamps
StripTimestamps(rows) == {[r EXCEPT !.updatedAt = 0, !.lastIndexedAt = 0] : r \in rows}

UniqueSlugs(rows) == \A a, b \in rows : a.slug = b.slug => a = b

\* C12: after a second run in a row, both runs having fetched the same
\* upstream records and upserted all of them, the table holds the rows it
\* held after the first run, one per slug, and they differ in updatedAt and
\* lastIndexedAt only.
C12_SecondRunSameRows ==
    (job.pc = "done" /\ job.run = 2 /\ job.clean) =>
        /\ StripTimestamps(tables.mcp) = StripTimestamps(job.afterFirst)
        /\ Cardinality(tables.mcp) = Cardinality(job.afterFirst)
        /\ UniqueSlugs(tables.mcp)

\* The second run returned; it rewrote the timestamps of the rows of the
\* first, among them the one row of the two records that share a slug.
C12_Witness ==
    /\ job.pc = "done" /\ job.run = 2 /\ job.clean
    /\ tables.mcp # job.afterFirst
    /\ \E r \in tables.mcp : r.slug = GenerateSlug(S_dDashDashB, "official-mcp")
                             /\ r.name = S_dDashDashB /\ r.updatedAt = now
    /\ IndexUpstream["official-mcp"][2].name = S_dDashDashB
    /\ IndexUpstream["official-mcp"][3].name = S_dDashDashB

\* C13: the stars that syncMCPServerStats wrote for a record of the official
\* registry, whose upstream record supplies no stars, are still stored
\* whatever the indexer upserts afterwards.
C13_SyncedStatsKept ==
    \A r \in tables.mcp :
        (r.sourceRegistry = "official-mcp" /\ r.id \in DOMAIN job.synced)
            => r.githubStars = job.synced[r.id]

-----------------------------------------------------------------------------
(* Claims about the stats sync *)

SnapshotsOf(id) == Cardinality({x \in tables.stats : x.mcpServerId = id})

LookupFailed(outcome) == outcome \in {"notOk", "error"}

\* The body of the for loop is over for the record
RecordDone(id) ==
    /\ id \in DOMAIN job.log
    /\ \A i \in 1..Len(job.queue) : job.queue[i].id # id

StoredStars(id) == (CHOOSE r \in tables.mcp : r.id = id).githubStars

\* C14: a record never has two snapshot rows of one pass; once the pass is
\* done with a record whose writes all succeeded, the record has one
\* snapshot row if a lookup succeeded and none if none did; and if the pull
\* lookup failed and the star lookup succeeded, its stars are the ones
\* looked up.
C14_OneSnapshotPerRecord ==
    \A id \in DOMAIN job.log :
        /\ SnapshotsOf(id) <= 1
        /\ (RecordDone(id) /\ ~job.log[id].threw) =>
              /\ SnapshotsOf(id) =
                    IF job.log[id].pulls = "ok" \/ job.log[id].stars = "ok" THEN 1 ELSE 0
              /\ (LookupFailed(job.log[id].pulls) /\ job.log[id].stars = "ok")
                    => StoredStars(id) = RepoStargazers

\* The pull lookup of the record with an image and a repository failed and
\* its star lookup succeeded: its stars are updated and it has one snapshot
\* row; the one lookup of another record failed: no snapshot row.
C14_Witness ==
    /\ job.pc = "done" /\ ~job.loadFailed
    /\ LookupFailed(job.log[3].pulls) /\ job.log[3].stars = "ok" /\ ~job.log[3].threw
    /\ SnapshotsOf(3) = 1
    /\ StoredStars(3) = RepoStargazers
    /\ LookupFailed(job.log[1].stars) /\ SnapshotsOf(1) = 0

\* C15: when the pass returns after a successful load, failed counts every
\* record one of whose lookups failed.
C15_FailedLookupCounted ==
    (job.pc = "done" /\ ~job.loadFailed) =>
        job.failed >= Cardinality({id \in DOMAIN job.log :
                                      \/ LookupFailed(job.log[id].pulls)
                                      \/ LookupFailed(job.log[id].stars)})

\* What does hold: after a failed lookup the pass goes on to the end of the
\* list.
SyncReachesEveryRecord ==
    (job.pc = "done" /\ ~job.loadFailed) =>
        \A id \in DOMAIN job.log :
            /\ RecordDone(id)
            /\ (SyncsGitHub(CHOOSE r \in tables.mcp : r.id = id) /\ ~job.log[id].threw)
                  => job.log[id].stars # "none"

\* C16: when the load query failed or was not run, the sync returns
\* updated = 0 and failed = 0, has looked nothing up and has written nothing.
C16_LoadFailureSkipsSync ==
    job.loadFailed =>
        /\ job.pc = "done"
        /\ job.updated = 0 /\ job.failed = 0
        /\ job.log = <<>>
        /\ tables = [mcp |-> InitialSyncServers, stats |-> {}]

\* The load query itself rejected.
C16_Witness ==
    /\ job.loadFailed /\ job.pc = "done"
    /\ circuitOpen /\ lastRejectAt = now
    /\ job.updated = 0 /\ job.failed = 0

-----------------------------------------------------------------------------
(* Claims about search and filters *)

ItemKey(svc, item) == IF svc = "plugins" THEN <<item.origin, item.id>> ELSE <<"db", item.id>>

ItemKeys(svc, body) == {ItemKey(svc, ItemsOf(svc, body)[i]) : i \in 1..Len(ItemsOf(svc, body))}

\* C17: two calls of a listing service whose search terms differ only in
\* letter case return the same items.
C17_SearchIgnoresCase ==
    (req.pc = "done" /\ CaseTwin(req.o, req.twin)) =>
        ItemKeys(req.svc, req.result) = ItemKeys(req.svc, req.twinResult)

\* What does hold: the marketplace search, which has no tag or keyword
\* condition, ignores case.
MarketplaceSearchIgnoresCase ==
    (req.pc = "done" /\ req.svc = "marketplaces" /\ CaseTwin(req.o, req.twin)) =>
        ItemKeys(req.svc, req.result) = ItemKeys(req.svc, req.twinResult)

\* The rank the claim gives an item: exact name, name prefix, substring of the
\* name or the display name, description, other
ClaimedTier(svc, item, search) ==
    LET term == ToLower(search)
    IN  IF ToLower(item.name) = term THEN 0
        ELSE IF StartsWith(ToLower(item.name), term) THEN 1
        ELSE IF \/ Includes(ToLower(item.name), term)
                \/ svc = "mcp" /\ Includes(ToLower(item.displayName), term) THEN 2
        ELSE IF Includes(ToLower(item.description), term) THEN 3
        ELSE 4

TagMatches(item, search) ==
    \E i \in 1..Len(item.tags) : Includes(ToLower(item.tags[i]), ToLower(search))

RelevanceOrdered(svc, items, search) ==
    /\ \A i \in 1..Len(items) :
          ClaimedTier(svc, items[i], search) <= 3 \/ TagMatches(items[i], search)
    /\ \A i, k \in 1..Len(items) :
          (i < k /\ ClaimedTier(svc, items[i], search) <= 3
                 /\ ClaimedTier(svc, items[k], search) <= 3)
             => ClaimedTier(svc, items[i], search) <= ClaimedTier(svc, items[k], search)

\* C18: a list returned for sort = relevance and a search term holds only
\* items that match the term, exact names before name prefixes before
\* substrings of the name or display name before descriptions.
C18_RelevanceOrder ==
    (req.pc = "done" /\ req.svc \in {"mcp", "plugins"}
        /\ req.o.sort = "relevance" /\ req.o.search # <<>>) =>
        RelevanceOrdered(req.svc, ItemsOf(req.svc, req.result), req.o.search)

\* What does hold: the merged plugin list is in the claimed order.
PluginRelevanceOrdered ==
    (req.pc = "done" /\ req.svc = "plugins"
        /\ req.o.sort = "relevance" /\ req.o.search # <<>>) =>
        RelevanceOrdered(req.svc, ItemsOf(req.svc, req.result), req.o.search)

\* The item equals the value v on the dimension d
DimensionEquals(svc, item, d, v) ==
    CASE svc = "mcp" /\ d = "category" -> item.category = v
      [] svc = "mcp" /\ d = "sourceRegistry" -> item.sourceRegistry = v
      [] svc = "mcp" /\ d = "verification" -> item.verificationStatus = v
      [] svc = "plugins" /\ d = "type" -> item.type = v
      [] svc = "plugins" /\ d = "marketplaceId" ->
            item.marketplaceId = v \/ item.marketplaceName = v
      [] svc = "plugins" /\ d = "category" ->
            IF item.origin = "local" THEN item.category = v
            ELSE \E r \in tables.plugins : r.id = item.id /\ EqualsAny(v, r.categories)

\* C20: a call that passes 'all' for a categorical filter returns what the
\* call without the filter returns; a call that passes another value returns
\* only items equal to it on that dimension, and all such items of the call
\* without the filter.
C20_AllOrEquality ==
    req.pc = "done" =>
        \A d \in Dimensions(req.svc) :
            DropTwin(req.svc, req.o, req.twin, d) =>
                LET items == ItemsOf(req.svc, req.result)
                    others == ItemsOf(req.svc, req.twinResult)
                IN  IF req.o[d] = AllValue(req.svc, d)
                    THEN ItemKeys(req.svc, req.result) = ItemKeys(req.svc, req.twinResult)
                    ELSE /\ \A i \in 1..Len(items) :
                               DimensionEquals(req.svc, items[i], d, req.o[d])
                         /\ \A i \in 1..Len(others) :
                               DimensionEquals(req.svc, others[i], d, req.o[d])
                                  => ItemKey(req.svc, others[i]) \in ItemKeys(req.svc, req.result)

\* What does hold: the filters that know the sentinel (source registry,
\* verification, type, marketplace id) do as the claim says.
SentinelFiltersAllOrEquality ==
    req.pc = "done" =>
        \A d \in Dimensions(req.svc) \ {"category"} :
            DropTwin(req.svc, req.o, req.twin, d) =>
                LET items == ItemsOf(req.svc, req.result)
                    others == ItemsOf(req.svc, req.twinResult)
                IN  IF req.o[d] = AllValue(req.svc, d)
                    THEN ItemKeys(req.svc, req.result) = ItemKeys(req.svc, req.twinResult)
                    ELSE /\ \A i \in 1..Len(items) :
                               DimensionEquals(req.svc, items[i], d, req.o[d])
                         /\ \A i \in 1..Len(others) :
                               DimensionEquals(req.svc, others[i], d, req.o[d])
                                  => ItemKey(req.svc, others[i]) \in ItemKeys(req.svc, req.result)

-----------------------------------------------------------------------------
(* Claims about the query parameters *)

\* C19: the limit a list route handler passes to its service is an integer,
\* at most 100, and the endpoint's default when the parameter is missing.
C19_LimitIntegerAtMost100 ==
    req.pc = "called" =>
        /\ ~req.limit.nan
        /\ req.limit.n <= MAX_LIMIT
        /\ req.raw = <<>> => req.limit = ParseInt(DefaultLimit(req.svc))

\* What does hold: a parameter that starts with a number, after blanks and a
\* sign, is passed as that number or as 100 if it is larger; a missing one as
\* the default.
NumericLimitClamped ==
    (req.pc = "called" /\ ~ParseInt(IF req.raw = <<>> THEN DefaultLimit(req.svc)
                                    ELSE req.raw).nan) =>
        /\ ~req.limit.nan
        /\ req.limit.n <= MAX_LIMIT
        /\ req.raw = <<>> => req.limit = ParseInt(DefaultLimit(req.svc))
        /\ req.raw = <<"1", "0", "1">> => req.limit.n = MAX_LIMIT
        /\ req.raw = <<"-", "1">> => req.limit.n = 0 - 1

-----------------------------------------------------------------------------
(* Claims about the local filter and the database filter *)

\* C21: for any item data and any options (type, category, search),
\* filterLocalPlugins keeps the item exactly when the where clause of the
\* plugin query selects the row that carries the same data.
C21_LocalFilterIsDbFilter ==
    req.pc = "compared" => (req.kept <=> req.selected)

\* Without a search term the two filters agree on every item and option.
FiltersAgreeWithoutSearch ==
    (req.pc = "compared" /\ req.o.search = <<>>) => (req.kept <=> req.selected)

\* A search term that only a tag contains, or that differs from the tag in
\* letter case, is where the two filters part.
FiltersDifferOnlyOnTags ==
    (req.pc = "compared" /\ req.kept # req.selected)
        => /\ req.kept
           /\ \E i \in 1..Len(req.item.tags) :
                 /\ Includes(ToLower(req.item.tags[i]), ToLower(req.o.search))
                 /\ req.item.tags[i] # req.o.search

-----------------------------------------------------------------------------
(* Claims about the reported total *)

\* The number of active records that satisfy the filter of the request: the
\* count query of the service and, for the plugin listing, the local items
\* that pass filterLocalPlugins
FilterCount(svc, o) ==
    CASE svc = "mcp" -> McpCountQuery(tables.mcp, o)
      [] svc = "marketplaces" -> MktCountQuery(tables.marketplaces, o)
      [] svc = "plugins" ->
            Len(LocalPlugins(o, LocalCatalog))
            + (IF IsBWCOnly(o) THEN 0 ELSE PluginCountQuery(tables.plugins, o))

\* C22: in each listing service the reported total is the number of active
\* records that satisfy the filter of the request, as counted under the same
\* predicate, and it is the same for another limit and offset.
C22_TotalIsFilterCount ==
    req.pc = "done" =>
        /\ req.result.total = FilterCount(req.svc, req.o)
        /\ req.twin = PageTwin(req.o) => req.twinResult.total = req.result.total

\* The MCP listing and the marketplace listing report the result of their
\* count query, whatever the page.
CountedTotal ==
    (req.pc = "done" /\ req.svc # "plugins") =>
        /\ req.result.total = FilterCount(req.svc, req.o)
        /\ req.twin = PageTwin(req.o) => req.twinResult.total = req.result.total

\* The plugin listing reports the length of the merged list, which leaves out
\* the database rows that a local item shadows.
PluginTotalIsMergedLength ==
    (req.pc = "done" /\ req.svc = "plugins" /\ ~IsBWCOnly(req.o)) =>
        LET shadowed == {r \in tables.plugins :
                            /\ PluginWhere(r, req.o)
                            /\ \E i \in 1..Len(LocalPlugins(req.o, LocalCatalog)) :
                                  MergeKey(LocalPlugins(req.o, LocalCatalog)[i])
                                      = MergeKey(UnifiedFromRow(r))}
        IN  req.result.total = FilterCount("plugins", req.o) - Cardinality(shadowed)

-----------------------------------------------------------------------------
(* Claims about the local-only plugin listing *)

\* A request for the Build with Claude marketplace, by identifier or by name
ForBuildWithClaude(o) ==
    o.marketplaceId \in {"build-with-claude", "Build with Claude"}

\* C23: a plugin request for the Build with Claude marketplace issues no
\* database query and returns the filtered, sorted local list cut to
\* [offset, offset + limit) with the filtered local count as total, in every
\* state of the database and of the breaker.
C23_LocalOnlyWithoutDatabase ==
    (req.pc # "idle" /\ req.svc = "plugins" /\ ForBuildWithClaude(req.o)) =>
        LET local == SortPlugins(FilterLocalPlugins(LocalCatalog, req.o),
                                 req.o.sort, req.o.search)
        IN  /\ req.pc = "done"
            /\ req.outcome = "returned"
            /\ ~req.dbFailed
            /\ req.result.plugins
                  = Slice(local, req.o.offset, req.o.offset + req.o.limit)
            /\ req.result.total = Len(local)
            /\ req.resp.body = req.result

C23_Witness ==
    /\ req.pc = "done" /\ req.svc = "plugins"
    /\ req.o.marketplaceId = "Build with Claude"
    /\ req.o.search # <<>>
    /\ Len(req.result.plugins) = 1
    /\ circuitOpen /\ now - circuitOpenedAt <= CIRCUIT_TTL_MS

-----------------------------------------------------------------------------
(* Claims about the values of a snapshot row *)

StoredRecord(id) == CHOOSE r \in tables.mcp : r.id = id

\* The snapshot row carries the three metrics of the record
SameMetrics(x, r) ==
    /\ OrZero(x.githubStars) = OrZero(r.githubStars)
    /\ OrZero(x.dockerPulls) = OrZero(r.dockerPulls)
    /\ OrZero(x.npmDownloads) = OrZero(r.npmDownloads)

\* C24: once the pass is done with a record whose writes all succeeded, the
\* snapshot row inserted for it carries the stars, pulls and downloads that
\* the record holds, also when both lookups succeeded.
C24_SnapshotMatchesRecord ==
    \A id \in DOMAIN job.log :
        (RecordDone(id) /\ ~job.log[id].threw) =>
            \A x \in tables.stats : x.mcpServerId = id => SameMetrics(x, StoredRecord(id))

\* With one successful lookup the snapshot row and the record agree.
SnapshotMatchesAfterOneLookup ==
    \A id \in DOMAIN job.log :
        (RecordDone(id) /\ ~job.log[id].threw
           /\ ~(job.log[id].pulls = "ok" /\ job.log[id].stars = "ok")) =>
            \A x \in tables.stats : x.mcpServerId = id => SameMetrics(x, StoredRecord(id))

\* With two successful lookups the snapshot row has the pulls looked up and
\* the stars the record had when the pass loaded it.
SnapshotStarsStaleAfterTwoLookups ==
    \A id \in DOMAIN job.log :
        (RecordDone(id) /\ ~job.log[id].threw
           /\ job.log[id].pulls = "ok" /\ job.log[id].stars = "ok") =>
            \A x \in tables.stats : x.mcpServerId = id =>
                /\ x.dockerPulls = HubPullCount /\ StoredRecord(id).dockerPulls = HubPullCount
                /\ StoredRecord(id).githubStars = RepoStargazers
                /\ x.githubStars
                      = OrZero((CHOOSE r \in InitialSyncServers : r.id = id).githubStars)

-----------------------------------------------------------------------------
(* Claims about the active flag *)

\* C25: no step of the indexer or of the stats syncer changes the active
\* flag or the name of a row that exists: every row of mcp_servers is there
\* after the step under the same id and slug, as active as before.  An
\* inactive row stays inactive when the indexer upserts over it, and a row
\* that no upstream record matches stays active.
C25_ActiveFlagFrame ==
    [][\A r \in tables.mcp :
          \E q \in tables.mcp' :
             /\ q.id = r.id /\ q.slug = r.slug
             /\ q.active = r.active
             /\ q.name = r.name]_vars

\* The indexer has upserted over the inactive docker record, the syncer has
\* updated the official record that no upstream record matches, and a
\* listing returned since then.
C25_Witness ==
    /\ \E r \in tables.mcp : r.id = 2 /\ ~r.active /\ r.dockerPulls = 5
    /\ \E r \in tables.mcp : r.id = 1 /\ r.active /\ r.githubStars = 7
    /\ ServiceReturned /\ req.svc = "mcp" /\ ~req.dbFailed

-----------------------------------------------------------------------------
(* Claims about the slugs of one run *)

\* The upstream identifier of the i-th record of a source
UpstreamId(s, i) ==
    IF s = "official-mcp" THEN OfficialRegistryNames[i] ELSE IndexUpstream[s][i].name

\* The rows of a source that the running or last run wrote
RowsWritten(s) == {r \in tables.mcp : r.sourceRegistry = s /\ r.lastIndexedAt = now}

SourceCount(s) == IF s = "official-mcp" THEN job.counters.officialMcp ELSE job.counters.docker

\* C26: when a run returns, two records of one source with different
\* upstream identifiers whose upserts returned are stored under different
\* slugs, and the run wrote as many rows of each source as it counts indexed
\* for the source.
C26_DistinctSlugsPerSource ==
    job.pc = "done" =>
        \A s \in {"official-mcp", "docker"} :
            /\ \A i, j \in 1..Len(IndexUpstream[s]) :
                  (Attempted(s, i, TRUE) /\ Attempted(s, j, TRUE)
                     /\ UpstreamId(s, i) # UpstreamId(s, j))
                  => GenerateSlug(IndexUpstream[s][i].name, s)
                        # GenerateSlug(IndexUpstream[s][j].name, s)
            /\ Cardinality(RowsWritten(s)) = SourceCount(s)

\* For the Docker source, whose names are repository names of one
\* namespace, the rows written are as many as counted.
DockerRowsAsCounted ==
    job.pc = "done" => Cardinality(RowsWritten("docker")) = SourceCount("docker")

-----------------------------------------------------------------------------
(* Claims about what opens the breaker *)

\* The call returned its fallback without invoking its operation
ShortCircuited(c) == Finished(c) /\ ~calls[c].invoked

\* The step is the resolution of the operation of call c
Resolves(c) == calls[c].pc = "awaiting" /\ calls'[c].pc = "done" /\ calls'[c].result.fromDb

\* C27: in every reachable state a call was short-circuited only if an
\* operation of some safeDbQuery call had rejected before, at most 30 seconds
\* before the call started; and the step in which the operation of a call
\* resolves neither opens the breaker nor changes the recorded failure time.
C27_OnlyRejectionsOpen ==
    /\ [](\A c \in CallIds :
             ShortCircuited(c) => (0 <= calls[c].sinceFailure
                                   /\ calls[c].sinceFailure <= CIRCUIT_TTL_MS))
    /\ [][\A c \in CallIds :
             Resolves(c) => /\ circuitOpen' = circuitOpen
                            /\ circuitOpenedAt' = circuitOpenedAt
                            /\ lastRejectAt' = lastRejectAt]_vars

\* One call was short-circuited 30 seconds after the rejection; another
\* started later still, ran its operation and resolved, and the failure
\* time recorded is still that of the one rejection.
C27_Witness ==
    \E c, d \in CallIds :
        /\ c # d
        /\ ShortCircuited(c) /\ calls[c].sinceFailure = CIRCUIT_TTL_MS
        /\ Finished(d) /\ calls[d].result.fromDb /\ calls[d].sinceFailure > CIRCUIT_TTL_MS
        /\ ~circuitOpen /\ circuitOpenedAt = lastRejectAt

-----------------------------------------------------------------------------
(* Claims about the stats sync and the shared breaker *)

\* The breaker is open and its window has not expired
BreakerOpen == circuitOpen /\ now - circuitOpenedAt <= CIRCUIT_TTL_MS

\* C28: when syncMCPServerStats starts while the breaker is open, it returns
\* at once with updated = 0 and failed = 0, and it never looks anything up or
\* writes anything; the failure that opened the breaker may be that of
\* another query.
C28_OpenBreakerSkipsSync ==
    /\ [][(job.pc = "idle" /\ job'.pc # "idle" /\ BreakerOpen)
             => /\ job'.pc = "done"
                /\ job'.shortCircuited
                /\ job'.updated = 0 /\ job'.failed = 0
                /\ tables' = tables]_vars
    /\ [](job.shortCircuited
             => /\ job.pc = "done"
                /\ job.updated = 0 /\ job.failed = 0
                /\ job.log = <<>>
                /\ tables = [mcp |-> InitialSyncServers, stats |-> {}])

\* The sync started while the breaker was open, returned without running
\* its query, and the window has expired since.
C28_Witness ==
    /\ job.pc = "done" /\ job.shortCircuited
    /\ job.updated = 0 /\ job.failed = 0
    /\ lastRejectAt >= 0 /\ now - lastRejectAt > CIRCUIT_TTL_MS
    /\ tables.stats = {}

\* After the window the sync runs its query again.
SyncRunsAfterWindow ==
    [][(job.pc = "idle" /\ job'.pc # "idle" /\ ~BreakerOpen) => job'.pc = "loading"]_vars

-----------------------------------------------------------------------------
(* Claims about the sort parameter *)

\* C29: the handler of /api/plugins/list passes on unchanged every sort
\* option that the skills list can send and getPluginsPaginated implements
\* (relevance, stars, newest, oldest, name, name-desc, updated), and replaces
\* by relevance only the values outside that set.
C29_PluginSortPassedOn ==
    (req.pc = "called" /\ req.svc = "plugins") =>
        /\ req.sortParam \in SortOption \cup SkillsSortItems => req.sort = req.sortParam
        /\ req.sortParam \notin SortOption \cup SkillsSortItems => req.sort = "relevance"

\* What the handler does: the four values of its list pass, every other
\* value becomes relevance.
PluginSortReplacedOutsideList ==
    (req.pc = "called" /\ req.svc = "plugins") =>
        req.sort = IF req.sortParam \in {"relevance", "stars", "name", "updated"}
                   THEN req.sortParam ELSE "relevance"

\* The handler of /api/marketplaces/list passes the six values of the menu.
MarketplaceSortPassedOn ==
    (req.pc = "called" /\ req.svc = "marketplaces" /\ req.sortParam \in SkillsSortItems)
        => req.sort = req.sortParam

-----------------------------------------------------------------------------
(* Claims about the skills list page *)

\* No fetch is in flight and none was rejected
AllFetchesCompleted == fetch.inflight = {} /\ ~fetch.failed

DisplaysSelectedOnly ==
    \A i \in 1..Len(fetch.skills) : fetch.skills[i].combination = fetch.selected

\* C30: under every interleaving of filter changes, load-more triggers and
\* response arrivals, once all fetches in flight have completed the displayed
\* list holds only items fetched for the selected combination, and the
\* stored offset is the number of displayed items.
C30_ListOfSelectedCombination ==
    AllFetchesCompleted =>
        /\ DisplaysSelectedOnly
        /\ fetch.offset = Len(fetch.skills)

\* The stored offset is the number of displayed items in every state.
OffsetIsDisplayedCount == fetch.offset = Len(fetch.skills)

\* When no filter was changed while a fetch was in flight, the list is that
\* of the selected combination once the fetches have completed.
SelectedOnlyWithoutOverlap ==
    (AllFetchesCompleted /\ ~fetch.stale) => DisplaysSelectedOnly

====
